---- MODULE Spec2Model ----
(***************************************************************************)
(* Parallel provider fan-out and Reciprocal Rank Fusion of mcp-omnisearch: *)
(* the web_search and answer tool handlers of server/tools.ts.             *)
(*                                                                         *)
(* One behaviour is one tool call.  A macrotask (an I/O completion, a      *)
(* timer) runs only when the microtask queue is empty; promise reactions   *)
(* and the handler's continuation after its await are microtasks.          *)
(* Fused scores are exact rationals, kept as integer multiples of 1/Scale. *)
(*                                                                         *)
(* Also the server-sent-event consumer of the Brave answer provider        *)
(* (consume_sse_stream), as a reader of its own.                           *)
(***************************************************************************)
EXTENDS Integers, Sequences, FiniteSets

\* ---------------------------------------------------------------- bounds
\* Rows of each provider table that are modelled (the first NumProviders).
NumProviders == 2
\* Longest result list a provider returns in a tool call (Spec).
MaxReply == 1
\* Total number of result items over all providers handed to the fusion
\* (MergeSpec).
MaxItems == 4
\* Largest max_retries handed to retry_with_backoff on its own (RetrySpec).
MaxRetries == 2

\* Most lines of an event stream, and most chunks it is read in (SseSpec).
MaxLines == 2
MaxChunks == 3

\* ------------------------------------------------------ program constants
RRF_K == 60
\* The policy every provider task passes to retry_with_backoff.
two_retries == 1 + 1
max_retries == 1
base_delay_ms == 500

\* ------------------------------------------------------------- utilities
Range(s) == {s[i] : i \in 1..Len(s)}

Includes(s, e) == \E i \in 1..Len(s) : s[i] = e

Max(a, b) == IF a >= b THEN a ELSE b

RECURSIVE Product(_, _)
Product(lo, hi) == IF lo > hi THEN 1 ELSE lo * Product(lo + 1, hi)

RECURSIVE Power2(_)
Power2(n) == IF n <= 0 THEN 1 ELSE 2 * Power2(n - 1)

\* Array.prototype.filter on a sequence of names.
RECURSIVE FilterOut(_, _)
FilterOut(s, done) ==
    IF s = <<>> THEN <<>>
    ELSE IF Includes(done, Head(s)) THEN FilterOut(Tail(s), done)
         ELSE <<Head(s)>> \o FilterOut(Tail(s), done)

\* Sequences over S of length at most n.
SeqUpTo(S, n) == UNION {[1..k -> S] : k \in 0..n}

\* ------------------------------------------------------------ provider tables
web_sub_providers ==
    <<"tavily", "brave", "kagi", "exa", "firecrawl", "perplexity",
      "serpapi", "linkup">>

ai_sub_providers ==
    <<"perplexity", "kagi_fastgpt", "exa_answer", "brave_answer",
      "tavily_answer", "you_search", "serpapi_answer", "gemini">>

Rows == 1..NumProviders

SubProviders(t) ==
    IF t = "answer" THEN SubSeq(ai_sub_providers, 1, NumProviders)
    ELSE SubSeq(web_sub_providers, 1, NumProviders)

\* An API key as the environment gives it: undefined, empty, blank or set.
KeyValues == {"undefined", "", " ", "key"}

\* wp.key && wp.key.trim() !== ''
KeyIsSetNoTrim(key) == key # "undefined" /\ key # ""
KeyIsSet(key) == key # "undefined" /\ key # "" /\ key # " "

\* The tasks array: one task per row whose key is set, in table order.
RECURSIVE BuildTasksLastFirst(_, _, _)
BuildTasksLastFirst(table, keys, i) ==
    IF i > Len(table) THEN <<>>
    ELSE IF KeyIsSet(keys[i])
         THEN BuildTasksLastFirst(table, keys, i + 1) \o <<table[i]>>
         ELSE BuildTasksLastFirst(table, keys, i + 1)
RECURSIVE BuildTasks(_, _, _)
BuildTasks(table, keys, i) ==
    IF i > Len(table) THEN <<>>
    ELSE IF KeyIsSet(keys[i])
         THEN <<table[i]>> \o BuildTasks(table, keys, i + 1)
         ELSE BuildTasks(table, keys, i + 1)

\* ------------------------------------------------------------ result items
URLs == {"x", "y", "z"}
Scores == {1}

\* A SearchResult as an adapter returns it; score is optional. Two items of
\* one URL may carry different snippets, and a snippet may be empty.
Scored(u, s) == [title |-> "", url |-> u, snippet |-> "about " \o u, score |-> s]
Unscored(u) ==
    [title |-> "", url |-> u,
     snippet |-> IF u = "y" THEN "" ELSE "more about " \o u]

Items ==
    {Scored(u, s) : u \in URLs, s \in Scores} \cup {Unscored(u) : u \in {"x", "y"}}

\* Items of a tool call's replies: scores do not matter to the dispatcher.
ReplyItems == {Unscored(u) : u \in {"x", "y"}}

\* Items of an AI provider's reply: an answer text or a source, with or
\* without url, the snippet a text, empty or a placeholder.
AnswerItem(u, text) == [title |-> "", url |-> u, snippet |-> text]

AnswerItems ==
    {AnswerItem("", "the answer"), AnswerItem("", ""),
     AnswerItem("x", "about x"), AnswerItem("x", "Source citation"),
     AnswerItem("x", "Research source: x")}

\* Each provider titles its own items: the title names provider and position.
Titled(name, results) ==
    [i \in 1..Len(results) |-> [results[i] EXCEPT !.title = <<name, i>>]]

\* ------------------------------------------------------------ rank fusion
\* Scores are multiples of 1/Scale; Scale is divisible by every K + rank + 1.
MaxRank == Max(MaxReply, MaxItems) - 1
Scale == Product(RRF_K + 1, RRF_K + MaxRank + 1)

\* const contribution = 1 / (RRF_K + rank + 1)
ContributionOffByOne(rank) == Scale \div (RRF_K + rank)
Contribution(rank) == Scale \div (RRF_K + rank + 1)

\* b.score ?? 0
ScoreOrOne(result) == IF "score" \in DOMAIN result THEN result.score ELSE 1
ScoreOrZero(result) == IF "score" \in DOMAIN result THEN result.score ELSE 0

\* Array.prototype.sort (stable) with comparator key(b) - key(a): the order of
\* the indices of keys, descending, equal keys in their original order.
RECURSIVE InsertIndexTiesFirst(_, _, _)
InsertIndexTiesFirst(order, keys, i) ==
    IF order = <<>> THEN <<i>>
    ELSE IF keys[i] - keys[Head(order)] >= 0
         THEN <<i>> \o order
         ELSE <<Head(order)>> \o InsertIndexTiesFirst(Tail(order), keys, i)
RECURSIVE InsertIndex(_, _, _)
InsertIndex(order, keys, i) ==
    IF order = <<>> THEN <<i>>
    ELSE IF keys[i] - keys[Head(order)] > 0
         THEN <<i>> \o order
         ELSE <<Head(order)>> \o InsertIndex(Tail(order), keys, i)

RECURSIVE SortedIndices(_, _)
SortedIndices(keys, n) ==
    IF n = 0 THEN <<>>
    ELSE InsertIndex(SortedIndices(keys, n - 1), keys, n)

SortDescending(s, keys) ==
    LET order == SortedIndices(keys, Len(s))
    IN  [i \in 1..Len(s) |-> s[order[i]]]

\* const ranked = [...results].sort((a, b) => (b.score ?? 0) - (a.score ?? 0))
Ranked(results) ==
    SortDescending(results, [i \in 1..Len(results) |-> ScoreOrZero(results[i])])

\* The two maps of the fusion: rrf_scores (url -> score) and url_data (in
\* insertion order).
EmptyFusion == [rrf_scores |-> <<>>, url_data |-> <<>>]

MapGet(m, k) == IF k \in DOMAIN m THEN m[k] ELSE 0

MapSet(m, k, v) == [j \in DOMAIN m \cup {k} |-> IF j = k THEN v ELSE m[j]]

IndexOfUrl(url_data, u) ==
    IF \E i \in 1..Len(url_data) : url_data[i].url = u
    THEN CHOOSE i \in 1..Len(url_data) : url_data[i].url = u
    ELSE 0

\* rrf_scores.set(result.url, (rrf_scores.get(result.url) ?? 0) + contribution)
AddScoreOverwrite(scores, u, rank) == MapSet(scores, u, Contribution(rank))
AddScore(scores, u, rank) == MapSet(scores, u, MapGet(scores, u) + Contribution(rank))

\* The url_data update of one result.
UpdateUrlDataNoDedup(url_data, provider_name, result) ==
    Append(url_data,
           [title |-> result.title, url |-> result.url,
            snippets |-> IF result.snippet # "" THEN <<result.snippet>> ELSE <<>>,
            source_providers |-> <<provider_name>>])
UpdateUrlDataLastWins(url_data, provider_name, result) ==
    LET at == IndexOfUrl(url_data, result.url)
        seen == [title |-> result.title, url |-> result.url,
                 snippets |-> IF result.snippet # "" THEN <<result.snippet>>
                              ELSE <<>>,
                 source_providers |-> <<provider_name>>]
    IN  IF at = 0 THEN Append(url_data, seen)
        ELSE [url_data EXCEPT ![at] =
                 [seen EXCEPT !.snippets = url_data[at].snippets \o seen.snippets,
                              !.source_providers =
                                  Append(url_data[at].source_providers,
                                         provider_name)]]
UpdateUrlData(url_data, provider_name, result) ==
    LET at == IndexOfUrl(url_data, result.url)
    IN  IF at = 0
        THEN Append(url_data,
                    [title |-> result.title, url |-> result.url,
                     snippets |-> IF result.snippet # "" THEN <<result.snippet>>
                                  ELSE <<>>,
                     source_providers |-> <<provider_name>>])
        ELSE LET existing == url_data[at]
                 providers ==
                     IF ~Includes(existing.source_providers, provider_name)
                     THEN Append(existing.source_providers, provider_name)
                     ELSE existing.source_providers
                 snippets ==
                     IF result.snippet # ""
                        /\ ~Includes(existing.snippets, result.snippet)
                     THEN Append(existing.snippets, result.snippet)
                     ELSE existing.snippets
             IN  [url_data EXCEPT ![at] =
                     [existing EXCEPT !.source_providers = providers,
                                      !.snippets = snippets]]

\* for (let rank = 0; rank < ranked.length; rank++) { ... }
\* (the maps so far and the ranked list are each evaluated once per round)
RECURSIVE FoldRankedByRawScore(_, _, _, _)
FoldRankedByRawScore(acc, provider_name, ranked, rank) ==
    IF rank >= Len(ranked) THEN acc
    ELSE CHOOSE next \in
             {LET result == list[rank + 1]
              IN  FoldRankedByRawScore(
                      [rrf_scores |-> MapSet(maps.rrf_scores, result.url,
                                             MapGet(maps.rrf_scores, result.url)
                                                 + ScoreOrZero(result)
                                                 + Contribution(rank)),
                       url_data |-> UpdateUrlData(maps.url_data, provider_name,
                                                  result)],
                      provider_name, list, rank + 1) :
                  maps \in {acc}, list \in {ranked}} : TRUE
RECURSIVE FoldRanked(_, _, _, _)
FoldRanked(acc, provider_name, ranked, rank) ==
    IF rank >= Len(ranked) THEN acc
    ELSE CHOOSE next \in
             {LET result == list[rank + 1]
              IN  FoldRanked(
                      [rrf_scores |-> AddScore(maps.rrf_scores, result.url, rank),
                       url_data |-> UpdateUrlData(maps.url_data, provider_name,
                                                  result)],
                      provider_name, list, rank + 1) :
                  maps \in {acc}, list \in {ranked}} : TRUE

\* for (const [provider_name, results] of results_by_provider) { ... }
RECURSIVE FoldProviders(_, _)
FoldProviders(acc, by_provider) ==
    IF by_provider = <<>> THEN acc
    ELSE CHOOSE next \in
             {FoldProviders(maps, Tail(by_provider)) :
                  maps \in {FoldRanked(acc, Head(by_provider).provider,
                                       Ranked(Head(by_provider).results), 0)}} :
             TRUE

\* Array.from(url_data.values()).map(...).sort((a, b) => b.score - a.score)
DedupedWebResultsFirstOnly(by_provider) ==
    LET fused == FoldProviders(EmptyFusion,
                               SubSeq(by_provider, 1,
                                      IF by_provider = <<>> THEN 0 ELSE 1))
        scored == [i \in 1..Len(fused.url_data) |->
                      [title |-> fused.url_data[i].title,
                       url |-> fused.url_data[i].url,
                       snippets |-> fused.url_data[i].snippets,
                       source_providers |-> fused.url_data[i].source_providers,
                       score |-> MapGet(fused.rrf_scores, fused.url_data[i].url)]]
    IN  SortDescending(scored, [i \in 1..Len(scored) |-> scored[i].score])
DedupedWebResults(by_provider) ==
    LET fused == FoldProviders(EmptyFusion, by_provider)
        scored == [i \in 1..Len(fused.url_data) |->
                      [title |-> fused.url_data[i].title,
                       url |-> fused.url_data[i].url,
                       snippets |-> fused.url_data[i].snippets,
                       source_providers |-> fused.url_data[i].source_providers,
                       score |-> MapGet(fused.rrf_scores, fused.url_data[i].url)]]
    IN  SortDescending(scored, [i \in 1..Len(scored) |-> scored[i].score])

\* ------------------------------------------------------------ answer entries
StartsWithResearchSource(snippet) == snippet \in {"Research source: x"}

\* One citation of build_answer_entry: the snippet is kept unless it is a
\* placeholder.
Citation(c) ==
    IF c.snippet # "" /\ c.snippet # "Source citation"
       /\ ~StartsWithResearchSource(c.snippet)
    THEN [title |-> c.title, url |-> c.url, snippet |-> c.snippet]
    ELSE [title |-> c.title, url |-> c.url]

\* citation_items.filter((c) => c.url).map(...)
RECURSIVE Citations(_)
Citations(citation_items) ==
    IF citation_items = <<>> THEN <<>>
    ELSE IF Head(citation_items).url # ""
         THEN <<Citation(Head(citation_items))>> \o Citations(Tail(citation_items))
         ELSE Citations(Tail(citation_items))

build_answer_entry_citing_all(provider_name, items) ==
    IF Len(items) = 0
    THEN [source |-> provider_name, answer |-> "No answer returned",
          citations |-> <<>>]
    ELSE [source |-> provider_name,
          answer |-> IF items[1].snippet # "" THEN items[1].snippet
                     ELSE "No answer returned",
          citations |-> Citations(items)]
build_answer_entry(provider_name, items) ==
    IF Len(items) = 0
    THEN [source |-> provider_name, answer |-> "No answer returned",
          citations |-> <<>>]
    ELSE [source |-> provider_name,
          answer |-> IF items[1].snippet # "" THEN items[1].snippet
                     ELSE "No answer returned",
          citations |-> Citations(Tail(items))]

\* ------------------------------------------------------------------ state
VARIABLES
    api_key,              \* config.<table>.<provider>.api_key, by table row
    tool,                 \* the tool called: "none", "web_search", "answer"
    timeout_ms,           \* the timeout_ms argument of web_search
    phase,                \* the handler: "idle", "waiting" (at its await), "returned"
    tasks,                \* names of the tasks array, in table order
    op,                   \* per task: the retry_with_backoff call wrapping the provider
    promise,              \* per task: task.promise, "pending" | "fulfilled" | "rejected"
    aborted,              \* abort_controller.signal.aborted
    terminated,           \* the flag gating safe_progress
    timer_armed,          \* timeout_id is set and not cleared
    interval_armed,       \* progress_interval is set and not cleared
    completed_count,
    completed_names,
    providers_succeeded,
    providers_failed,     \* providers_failed (web_search), failed (answer)
    results_by_provider,  \* the Map, in insertion order
    answers,
    microtasks,           \* queued promise reactions and the handler's continuation
    progress_log,         \* the server.progress calls other than 'waiting', in order
    last_progress,        \* the most recent server.progress call
    response              \* what the handler returned

\* consume_sse_stream of the Brave answer provider
VARIABLES
    body,                 \* response.body: the chunks of the stream, as delivered
    reader,               \* the chunks reader.read() has still to deliver
    buffer,               \* the text read and not yet split off as a line
    accumulated_content,  \* the delta contents appended so far
    model,                \* the model named last
    consumer              \* "idle", "reading" (in the while loop), "returned"

sse == <<body, reader, buffer, accumulated_content, model, consumer>>

vars ==
    <<sse, api_key, tool, timeout_ms, phase, tasks, op, promise, aborted, terminated,
      timer_armed, interval_armed, completed_count, completed_names,
      providers_succeeded, providers_failed, results_by_provider, answers,
      microtasks, progress_log, last_progress, response>>

ledger ==
    <<completed_count, completed_names, providers_succeeded, providers_failed,
      results_by_provider, answers>>

\* ------------------------------------------------------------ inputs
Undefined == [kind |-> "undefined", ms |-> 0]
Null == [kind |-> "null", ms |-> 0]
Number(n) == [kind |-> "number", ms |-> n]

TimeoutInputs == {Undefined, Null, Number(0), Number(-1), Number(1)}

\* timeout_ms && timeout_ms > 0 ? timeout_ms : null   (0 stands for null)
EffectiveTimeoutNever(t) == 0
EffectiveTimeoutTruthy(t) == IF t.kind = "number" /\ t.ms # 0 THEN t.ms ELSE 0
EffectiveTimeout(t) == IF t.kind = "number" /\ t.ms # 0 /\ t.ms > 0 THEN t.ms ELSE 0

NoError == [message |-> "", attempt |-> 0]
\* What an operation can throw; attempt is the call that threw it.
ErrorKinds == {"provider error", "rate limited"}
OperationError(kind, n) == [message |-> kind, attempt |-> n]
SearchTimeout == [message |-> "Search timeout", attempt |-> 0]

Replies == SeqUpTo(ReplyItems, MaxReply)

\* ------------------------------------------------------------ retry_with_backoff
\* One invocation retry_with_backoff(operation, max_retries, base_delay_ms):
\* the first call of the operation is made at once; calls counts the calls,
\* slept lists the delays slept so far, error is the last error thrown and
\* throws the kinds of error the operation can throw.
Invocation(throws, retries, delay) ==
    [st |-> "running", calls |-> 1, slept |-> <<>>, value |-> <<>>,
     error |-> NoError, throws |-> throws, max_retries |-> retries,
     base_delay_ms |-> delay]

\* The invocation of a provider task; a provider call throws a provider error.
FirstCall == Invocation({"provider error"}, max_retries, base_delay_ms)

\* Delay before retry i.
RetryDelayFromDouble(base, i) == base * Power2(i)
RetryDelay(base, i) == base * Power2(i - 1)

\* Every error is retried while retries are left.
RetryableByKind(error, calls, retries) ==
    calls <= retries /\ error.message # "rate limited"
Retryable(error, calls, retries) == calls <= retries

\* ------------------------------------------------------------ progress
ProgressCall(current, total, message) ==
    [current |-> current, total |-> total, message |-> message]

NoProgress == ProgressCall(0, 0, [event |-> "none"])

\* safe_progress: if (!terminated) server.progress(...)
SafeToSendAlways == TRUE
SafeToSend == ~terminated

\* ------------------------------------------------------------------ Init
\* No stream is being consumed.
NotConsuming ==
    /\ body = <<>>
    /\ reader = <<>>
    /\ buffer = <<>>
    /\ accumulated_content = <<>>
    /\ model = "brave"
    /\ consumer = "idle"

Init ==
    /\ NotConsuming
    /\ api_key \in [Rows -> KeyValues]
    /\ tool = "none"
    /\ timeout_ms = Undefined
    /\ phase = "idle"
    /\ tasks = <<>>
    /\ op = <<>>
    /\ promise = <<>>
    /\ aborted = FALSE
    /\ terminated = FALSE
    /\ timer_armed = FALSE
    /\ interval_armed = FALSE
    /\ completed_count = 0
    /\ completed_names = <<>>
    /\ providers_succeeded = <<>>
    /\ providers_failed = <<>>
    /\ results_by_provider = <<>>
    /\ answers = <<>>
    /\ microtasks = <<>>
    /\ progress_log = <<>>
    /\ last_progress = NoProgress
    /\ response = <<>>

\* ------------------------------------------------------------ handler pieces
\* tasks.filter((t) => !completed_names.includes(t.name)).map((t) => t.name)
PendingNamesNone(ts, done) == <<>>
PendingNamesAll(ts, done) == ts
PendingNamesInverted(ts, done) == SelectSeq(ts, LAMBDA t : Includes(done, t))
PendingNames(ts, done) == FilterOut(ts, done)

\* Promise.all(tracked_promises) is resolved: every tracked promise has run
\* its callback, and each callback pushes the task's name.
AllSettled(ts, done) == \A i \in 1..Len(ts) : Includes(done, ts[i])

\* reason instanceof Error ? reason.message : String(reason)
FailureRecordNoMessage(task, reason) == [provider |-> task, error |-> ""]
FailureRecord(task, reason) == [provider |-> task, error |-> reason.message]

\* results_by_provider.set(task.name, value)
SetResultsDropped(m, task, value) == m
SetResultsInFront(m, task, value) ==
    <<[provider |-> task, results |-> value]>>
        \o SelectSeq(m, LAMBDA e : e.provider # task)
SetResults(m, task, value) ==
    IF \E i \in 1..Len(m) : m[i].provider = task
    THEN [i \in 1..Len(m) |->
             IF m[i].provider = task THEN [provider |-> task, results |-> value]
             ELSE m[i]]
    ELSE Append(m, [provider |-> task, results |-> value])

Job(kind, task, value, reason) ==
    [job |-> kind, task |-> task, value |-> value, reason |-> reason]

ResumeJob == Job("resume", "", <<>>, NoError)

\* What the 'abort' listeners queue: a rejection of every task promise still
\* pending, in the order the listeners were added.
RECURSIVE AbortRejections(_, _)
AbortRejections(ts, promises) ==
    IF ts = <<>> THEN <<>>
    ELSE IF promises[Head(ts)] = "pending"
         THEN <<Job("rejected", Head(ts), <<>>, SearchTimeout)>>
              \o AbortRejections(Tail(ts), promises)
         ELSE AbortRejections(Tail(ts), promises)

NoProvidersError(t) ==
    [isError |-> TRUE,
     text |-> IF t = "answer" THEN "No AI providers configured."
              ELSE "No providers configured."]

\* The response object of web_search; providers_timed_out only when non-empty.
WebSearchResponseAlwaysListing(queried, succeeded, failed, timed_out, web_results) ==
    [isError |-> FALSE, query |-> "q", providers_queried |-> queried,
     providers_succeeded |-> succeeded, providers_failed |-> failed,
     providers_timed_out |-> timed_out, web_results |-> web_results]
WebSearchResponse(queried, succeeded, failed, timed_out, web_results) ==
    IF Len(timed_out) # 0
    THEN [isError |-> FALSE, query |-> "q", providers_queried |-> queried,
          providers_succeeded |-> succeeded, providers_failed |-> failed,
          providers_timed_out |-> timed_out, web_results |-> web_results]
    ELSE [isError |-> FALSE, query |-> "q", providers_queried |-> queried,
          providers_succeeded |-> succeeded, providers_failed |-> failed,
          web_results |-> web_results]

AnswerResponse(queried, failed, entries) ==
    [isError |-> FALSE, query |-> "q", providers_queried |-> queried,
     providers_succeeded |-> [i \in 1..Len(entries) |-> entries[i].source],
     providers_failed |-> failed, answers |-> entries]

FinalMessageAlwaysDone(timed_out) == [event |-> "all_done"]
FinalMessage(timed_out) ==
    IF Len(timed_out) # 0 THEN [event |-> "timeout", timed_out |-> timed_out]
    ELSE [event |-> "all_done"]

\* The handler of web_search from its finally block to its return, on the
\* ledger as it is when the handler resumes.
FinishWebSearch ==
    LET providers_timed_out == PendingNames(tasks, completed_names)
        final == ProgressCall(completed_count, Len(tasks),
                              FinalMessage(providers_timed_out))
    IN  /\ timer_armed' = FALSE
        /\ interval_armed' = FALSE
        /\ terminated' = TRUE
        /\ progress_log' = Append(progress_log, final)
        /\ last_progress' = final
        /\ response' = WebSearchResponse(tasks, providers_succeeded,
                                         providers_failed, providers_timed_out,
                                         DedupedWebResults(results_by_provider))
        /\ phase' = "returned"

\* The handler of answer from its finally block to its return.
FinishAnswerLeavingInterval ==
    LET final == ProgressCall(Len(tasks), Len(tasks), [event |-> "all_done"])
    IN  /\ progress_log' = Append(progress_log, final)
        /\ last_progress' = final
        /\ response' = AnswerResponse(tasks, providers_failed, answers)
        /\ phase' = "returned"
        /\ UNCHANGED <<timer_armed, terminated, interval_armed>>
FinishAnswer ==
    LET final == ProgressCall(Len(tasks), Len(tasks), [event |-> "all_done"])
    IN  /\ interval_armed' = FALSE
        /\ progress_log' = Append(progress_log, final)
        /\ last_progress' = final
        /\ response' = AnswerResponse(tasks, providers_failed, answers)
        /\ phase' = "returned"
        /\ UNCHANGED <<timer_armed, terminated>>

\* ------------------------------------------------------------ the tool call
\* The handler up to its await: tasks are built (each starts its provider
\* call), the empty check, the start progress, the interval and the timer.
StartTool(t, ms) ==
    LET built == BuildTasks(SubProviders(t), api_key, 1)
        start == ProgressCall(0, Len(built), [event |-> "start", names |-> built])
    IN  /\ phase = "idle"
        /\ tool' = t
        /\ timeout_ms' = ms
        /\ tasks' = built
        /\ op' = [n \in Range(built) |-> FirstCall]
        /\ promise' = [n \in Range(built) |-> "pending"]
        /\ IF Len(built) = 0
           THEN /\ response' = NoProvidersError(t)
                /\ phase' = "returned"
                /\ UNCHANGED <<progress_log, last_progress, interval_armed,
                               timer_armed>>
           ELSE /\ progress_log' = Append(progress_log, start)
                /\ last_progress' = start
                /\ interval_armed' = TRUE
                /\ timer_armed' = (t = "web_search" /\ EffectiveTimeout(ms) # 0)
                /\ phase' = "waiting"
                /\ UNCHANGED response
        /\ UNCHANGED <<sse, api_key, aborted, terminated, microtasks>>
        /\ UNCHANGED ledger

WebSearch == \E ms \in TimeoutInputs : StartTool("web_search", ms)

Answer == StartTool("answer", Undefined)

\* ------------------------------------------------------------ provider work
\* A settled retry_with_backoff promise settles task.promise unless the abort
\* already rejected it (make_cancellable); answer tasks are not cancellable.
SettleUnobserved(n, kind, value, reason) ==
    /\ promise' = [promise EXCEPT ![n] = kind]
    /\ UNCHANGED microtasks

Settle(n, kind, value, reason) ==
    IF promise[n] = "pending"
    THEN /\ promise' = [promise EXCEPT ![n] = kind]
         /\ microtasks' = Append(microtasks, Job(kind, n, value, reason))
    ELSE UNCHANGED <<promise, microtasks>>

\* The provider call of task n returns a result list.
OperationSucceeds(n, reply) ==
    /\ microtasks = <<>>
    /\ n \in DOMAIN op
    /\ op[n].st = "running"
    /\ op' = [op EXCEPT ![n].st = "resolved", ![n].value = Titled(n, reply)]
    /\ Settle(n, "fulfilled", Titled(n, reply), NoError)
    /\ UNCHANGED <<sse, api_key, tool, timeout_ms, phase, tasks, aborted, terminated,
                   timer_armed, interval_armed, progress_log, last_progress,
                   response>>
    /\ UNCHANGED ledger

\* The provider call of task n fails: a retry after the backoff delay, or the
\* last error once the attempts are used up.
OperationFails(n) ==
    /\ microtasks = <<>>
    /\ n \in DOMAIN op
    /\ op[n].st = "running"
    /\ \E kind \in op[n].throws :
          LET error == OperationError(kind, op[n].calls)
          IN  IF Retryable(error, op[n].calls, op[n].max_retries)
              THEN /\ op' = [op EXCEPT
                                ![n].st = "sleeping",
                                ![n].error = error,
                                ![n].slept =
                                    Append(@, RetryDelay(op[n].base_delay_ms,
                                                         op[n].calls))]
                   /\ UNCHANGED <<promise, microtasks>>
              ELSE /\ op' = [op EXCEPT ![n].st = "rejected", ![n].error = error]
                   /\ Settle(n, "rejected", <<>>, error)
    /\ UNCHANGED <<sse, api_key, tool, timeout_ms, phase, tasks, aborted, terminated,
                   timer_armed, interval_armed, progress_log, last_progress,
                   response>>
    /\ UNCHANGED ledger

\* The backoff sleep of task n is over: the operation is called again.
BackoffElapses(n) ==
    /\ microtasks = <<>>
    /\ n \in DOMAIN op
    /\ op[n].st = "sleeping"
    /\ op' = [op EXCEPT ![n].st = "running", ![n].calls = @ + 1]
    /\ UNCHANGED <<sse, api_key, tool, timeout_ms, phase, tasks, promise, aborted,
                   terminated, timer_armed, interval_armed, microtasks,
                   progress_log, last_progress, response>>
    /\ UNCHANGED ledger

\* ------------------------------------------------------------ promise reactions
\* A progress call of a callback: through safe_progress in web_search,
\* straight to server.progress in answer.
CallbackProgressTwice(call) ==
    IF tool = "answer" \/ SafeToSend
    THEN /\ progress_log' = Append(Append(progress_log, call), call)
         /\ last_progress' = call
    ELSE UNCHANGED <<progress_log, last_progress>>

CallbackProgress(call) ==
    IF tool = "answer" \/ SafeToSend
    THEN /\ progress_log' = Append(progress_log, call)
         /\ last_progress' = call
    ELSE UNCHANGED <<progress_log, last_progress>>

\* After a callback: the handler's continuation is queued once Promise.all is
\* resolved, if the handler is still at its await.
AfterCallbackOnFirst(done) ==
    microtasks' = IF phase = "waiting"
                  THEN Append(Tail(microtasks), ResumeJob)
                  ELSE Tail(microtasks)
AfterCallback(done) ==
    microtasks' = IF phase = "waiting" /\ AllSettled(tasks, done)
                  THEN Append(Tail(microtasks), ResumeJob)
                  ELSE Tail(microtasks)

\* task.promise.then((value) => { ... })
OnFulfilled ==
    /\ microtasks # <<>>
    /\ Head(microtasks).job = "fulfilled"
    /\ LET task == Head(microtasks).task
           value == Head(microtasks).value
       IN  /\ completed_count' = completed_count + 1
           /\ completed_names' = Append(completed_names, task)
           /\ IF tool = "answer"
              THEN /\ answers' = Append(answers, build_answer_entry(task, value))
                   /\ CallbackProgress(
                          ProgressCall(completed_count + 1, Len(tasks),
                                       [event |-> "provider_done",
                                        entry |-> build_answer_entry(task, value)]))
                   /\ UNCHANGED <<providers_succeeded, results_by_provider>>
              ELSE /\ providers_succeeded' = Append(providers_succeeded, task)
                   /\ results_by_provider' =
                          SetResults(results_by_provider, task, value)
                   /\ CallbackProgress(
                          ProgressCall(completed_count + 1, Len(tasks),
                                       [event |-> "provider_done",
                                        provider |-> task,
                                        result_count |-> Len(value)]))
                   /\ UNCHANGED answers
           /\ AfterCallback(Append(completed_names, task))
    /\ UNCHANGED <<sse, api_key, tool, timeout_ms, phase, tasks, op, promise, aborted,
                   terminated, timer_armed, interval_armed, providers_failed,
                   response>>

\* task.promise.then(..., (reason) => { ... })
OnRejectedUncounted ==
    /\ microtasks # <<>>
    /\ Head(microtasks).job = "rejected"
    /\ LET task == Head(microtasks).task
           failure == FailureRecord(task, Head(microtasks).reason)
       IN  /\ completed_names' = Append(completed_names, task)
           /\ providers_failed' = Append(providers_failed, failure)
           /\ CallbackProgress(
                  ProgressCall(completed_count, Len(tasks),
                               [event |-> "provider_failed", provider |-> task,
                                error |-> failure.error]))
           /\ AfterCallback(Append(completed_names, task))
    /\ UNCHANGED <<sse, api_key, tool, timeout_ms, phase, tasks, op, promise, aborted,
                   terminated, timer_armed, interval_armed, providers_succeeded,
                   results_by_provider, answers, response, completed_count>>
OnRejected ==
    /\ microtasks # <<>>
    /\ Head(microtasks).job = "rejected"
    /\ LET task == Head(microtasks).task
           failure == FailureRecord(task, Head(microtasks).reason)
       IN  /\ completed_count' = completed_count + 1
           /\ completed_names' = Append(completed_names, task)
           /\ providers_failed' = Append(providers_failed, failure)
           /\ CallbackProgress(
                  ProgressCall(completed_count + 1, Len(tasks),
                               [event |-> "provider_failed", provider |-> task,
                                error |-> failure.error]))
           /\ AfterCallback(Append(completed_names, task))
    /\ UNCHANGED <<sse, api_key, tool, timeout_ms, phase, tasks, op, promise, aborted,
                   terminated, timer_armed, interval_armed, providers_succeeded,
                   results_by_provider, answers, response>>

\* The handler resumes after its await with every task settled.
Resume ==
    /\ microtasks # <<>>
    /\ Head(microtasks).job = "resume"
    /\ microtasks' = Tail(microtasks)
    /\ IF tool = "answer" THEN FinishAnswer ELSE FinishWebSearch
    /\ UNCHANGED <<sse, api_key, tool, timeout_ms, tasks, op, promise, aborted>>
    /\ UNCHANGED ledger

\* ------------------------------------------------------------ timers
\* The setTimeout of the race fires: the handler resumes with 'timeout',
\* aborts, and runs to its return before any queued rejection is delivered.
TimeoutFiresCancellingCalls ==
    /\ microtasks = <<>>
    /\ phase = "waiting"
    /\ timer_armed
    /\ aborted' = TRUE
    /\ promise' = [n \in DOMAIN promise |->
                      IF promise[n] = "pending" THEN "rejected" ELSE promise[n]]
    /\ microtasks' = AbortRejections(tasks, promise)
    /\ FinishWebSearch
    /\ op' = [n \in DOMAIN op |->
                 IF op[n].st \in {"running", "sleeping"}
                 THEN [op[n] EXCEPT !.st = "rejected", !.error = SearchTimeout]
                 ELSE op[n]]
    /\ UNCHANGED <<sse, api_key, tool, timeout_ms, tasks>>
    /\ UNCHANGED ledger
TimeoutFires ==
    /\ microtasks = <<>>
    /\ phase = "waiting"
    /\ timer_armed
    /\ aborted' = TRUE
    /\ promise' = [n \in DOMAIN promise |->
                      IF promise[n] = "pending" THEN "rejected" ELSE promise[n]]
    /\ microtasks' = AbortRejections(tasks, promise)
    /\ FinishWebSearch
    /\ UNCHANGED <<sse, api_key, tool, timeout_ms, tasks, op>>
    /\ UNCHANGED ledger

\* The setInterval callback.
Heartbeat ==
    /\ microtasks = <<>>
    /\ interval_armed
    /\ LET pending_names == PendingNames(tasks, completed_names)
           call == ProgressCall(completed_count, Len(tasks),
                                [event |-> "waiting", done |-> completed_names,
                                 pending |-> pending_names])
       IN  IF Len(pending_names) > 0 /\ (tool = "answer" \/ SafeToSend)
           THEN last_progress' = call
           ELSE UNCHANGED last_progress
    /\ UNCHANGED <<sse, api_key, tool, timeout_ms, phase, tasks, op, promise, aborted,
                   terminated, timer_armed, interval_armed, microtasks,
                   progress_log, response>>
    /\ UNCHANGED ledger

\* ------------------------------------------------------------ specification
Next ==
    \/ WebSearch
    \/ Answer
    \/ \E n \in DOMAIN op : \E reply \in Replies : OperationSucceeds(n, reply)
    \/ \E n \in DOMAIN op : OperationFails(n)
    \/ \E n \in DOMAIN op : BackoffElapses(n)
    \/ OnFulfilled
    \/ OnRejected
    \/ Resume
    \/ TimeoutFires
    \/ Heartbeat

Spec == Init /\ [][Next]_vars

\* ------------------------------------------------------------ fusion inputs
\* The fusion on its own: a web_search call without timeout in which the first
\* k providers are enabled and have all succeeded, in table order, with any
\* result lists of at most MaxItems items in total; the handler is about to
\* resume.
Cut(flat, cuts, k, i) ==
    SubSeq(flat,
           (IF i = 1 THEN 0 ELSE cuts[i - 1]) + 1,
           IF i = k THEN Len(flat) ELSE cuts[i])

SucceededRun(names, value) ==
    LET k == Len(names)
        done(i) == ProgressCall(i, k, [event |-> "provider_done",
                                       provider |-> names[i],
                                       result_count |-> Len(value[i])])
    IN  /\ NotConsuming
        /\ api_key = [r \in Rows |-> IF r <= k THEN "key" ELSE "undefined"]
        /\ tool = "web_search"
        /\ timeout_ms = Undefined
        /\ phase = "waiting"
        /\ tasks = names
        /\ op = [n \in Range(names) |->
                    LET i == CHOOSE j \in 1..k : names[j] = n
                    IN  [FirstCall EXCEPT !.st = "resolved", !.value = value[i]]]
        /\ promise = [n \in Range(names) |-> "fulfilled"]
        /\ aborted = FALSE
        /\ terminated = FALSE
        /\ timer_armed = FALSE
        /\ interval_armed = TRUE
        /\ completed_count = k
        /\ completed_names = names
        /\ providers_succeeded = names
        /\ providers_failed = <<>>
        /\ results_by_provider =
               [i \in 1..k |-> [provider |-> names[i], results |-> value[i]]]
        /\ answers = <<>>
        /\ microtasks = <<ResumeJob>>
        /\ progress_log =
               <<ProgressCall(0, k, [event |-> "start", names |-> names])>>
               \o [i \in 1..k |-> done(i)]
        /\ last_progress = done(k)
        /\ response = <<>>

MergeInit ==
    \E k \in 1..NumProviders :
        \E flat \in SeqUpTo(Items, MaxItems) :
            \E cuts \in [1..(k - 1) -> 0..Len(flat)] :
                /\ \A i \in 1..(k - 2) : cuts[i] <= cuts[i + 1]
                /\ LET names == SubSeq(web_sub_providers, 1, k)
                   IN  SucceededRun(names,
                           [i \in 1..k |-> Titled(names[i], Cut(flat, cuts, k, i))])

MergeNext == Resume

MergeSpec == MergeInit /\ [][MergeNext]_vars

\* ------------------------------------------------------------ answer inputs
\* An answer call at the delivery of its last provider's outcome: the first
\* k providers are enabled, the providers in failed threw on both calls, the
\* others returned value[i]; the callbacks of all but the last have run, in
\* table order, and the last one is queued.
AnsweredRun(names, value, failed) ==
    LET k == Len(names)
        error == OperationError("provider error", max_retries + 1)
        start == ProgressCall(0, k, [event |-> "start", names |-> names])
        earlier == [i \in 1..(k - 1) |-> i]
        good == SelectSeq(earlier, LAMBDA i : names[i] \notin failed)
        bad == SelectSeq(earlier, LAMBDA i : names[i] \in failed)
        event(i) ==
            IF names[i] \in failed
            THEN [event |-> "provider_failed", provider |-> names[i],
                  error |-> FailureRecord(names[i], error).error]
            ELSE [event |-> "provider_done",
                  entry |-> build_answer_entry(names[i], value[i])]
        log == <<start>> \o [i \in 1..(k - 1) |-> ProgressCall(i, k, event(i))]
    IN  /\ NotConsuming
        /\ api_key = [r \in Rows |-> IF r <= k THEN "key" ELSE "undefined"]
        /\ tool = "answer"
        /\ timeout_ms = Undefined
        /\ phase = "waiting"
        /\ tasks = names
        /\ op = [n \in Range(names) |->
                    LET i == CHOOSE j \in 1..k : names[j] = n
                    IN  IF n \in failed
                        THEN [FirstCall EXCEPT
                                 !.st = "rejected", !.calls = max_retries + 1,
                                 !.slept = <<RetryDelay(base_delay_ms, 1)>>,
                                 !.error = error]
                        ELSE [FirstCall EXCEPT !.st = "resolved",
                                               !.value = value[i]]]
        /\ promise = [n \in Range(names) |->
                         IF n \in failed THEN "rejected" ELSE "fulfilled"]
        /\ aborted = FALSE
        /\ terminated = FALSE
        /\ timer_armed = FALSE
        /\ interval_armed = TRUE
        /\ completed_count = k - 1
        /\ completed_names = SubSeq(names, 1, k - 1)
        /\ providers_succeeded = <<>>
        /\ providers_failed =
               [j \in 1..Len(bad) |-> FailureRecord(names[bad[j]], error)]
        /\ results_by_provider = <<>>
        /\ answers =
               [j \in 1..Len(good) |->
                   build_answer_entry(names[good[j]], value[good[j]])]
        /\ microtasks =
               <<IF names[k] \in failed
                 THEN Job("rejected", names[k], <<>>, error)
                 ELSE Job("fulfilled", names[k], value[k], NoError)>>
        /\ progress_log = log
        /\ last_progress = log[Len(log)]
        /\ response = <<>>

\* At most MaxItems items in all, cut into one list per provider; a provider
\* that failed returned nothing.
AnswerInit ==
    \E k \in 1..NumProviders :
        \E flat \in SeqUpTo(AnswerItems, MaxItems) :
            \E cuts \in [1..(k - 1) -> 0..Len(flat)] :
                LET names == SubSeq(ai_sub_providers, 1, k)
                    value == [i \in 1..k |->
                                 Titled(names[i], Cut(flat, cuts, k, i))]
                IN  /\ \A i \in 1..(k - 2) : cuts[i] <= cuts[i + 1]
                    /\ \E failed \in SUBSET Range(names) :
                          /\ \A i \in 1..k :
                                names[i] \in failed => value[i] = <<>>
                          /\ AnsweredRun(names, value, failed)

AnswerNext ==
    \/ OnFulfilled
    \/ OnRejected
    \/ Resume

AnswerSpec == AnswerInit /\ [][AnswerNext]_vars

\* ------------------------------------------------------------ retry inputs
\* retry_with_backoff on its own: a web_search call without timeout whose one
\* provider task runs under any policy of at most MaxRetries retries, with an
\* operation that can throw any kind of error.
BaseDelays == {1, base_delay_ms}

RetryInit ==
    \E retries \in 0..MaxRetries : \E delay \in BaseDelays :
        LET names == SubSeq(web_sub_providers, 1, 1)
            start == ProgressCall(0, 1, [event |-> "start", names |-> names])
        IN  /\ NotConsuming
            /\ api_key = [r \in Rows |-> IF r <= 1 THEN "key" ELSE "undefined"]
            /\ tool = "web_search"
            /\ timeout_ms = Undefined
            /\ phase = "waiting"
            /\ tasks = names
            /\ op = [n \in Range(names) |-> Invocation(ErrorKinds, retries, delay)]
            /\ promise = [n \in Range(names) |-> "pending"]
            /\ aborted = FALSE
            /\ terminated = FALSE
            /\ timer_armed = FALSE
            /\ interval_armed = TRUE
            /\ completed_count = 0
            /\ completed_names = <<>>
            /\ providers_succeeded = <<>>
            /\ providers_failed = <<>>
            /\ results_by_provider = <<>>
            /\ answers = <<>>
            /\ microtasks = <<>>
            /\ progress_log = <<start>>
            /\ last_progress = start
            /\ response = <<>>

RetryNext ==
    \/ \E n \in DOMAIN op : \E reply \in Replies : OperationSucceeds(n, reply)
    \/ \E n \in DOMAIN op : OperationFails(n)
    \/ \E n \in DOMAIN op : BackoffElapses(n)
    \/ OnFulfilled
    \/ OnRejected
    \/ Resume

RetrySpec == RetryInit /\ [][RetryNext]_vars

\* ------------------------------------------------------------ scheduling
\* The event loop runs every queued microtask, and a timer that is armed
\* fires; a provider call may never complete.  What a provider returns has
\* no part in the scheduling: a reply is empty or has one item.
LiveReplies == {<<>>, <<Unscored("x")>>}

LiveNext ==
    \/ WebSearch
    \/ Answer
    \/ \E n \in DOMAIN op : \E reply \in LiveReplies : OperationSucceeds(n, reply)
    \/ \E n \in DOMAIN op : OperationFails(n)
    \/ \E n \in DOMAIN op : BackoffElapses(n)
    \/ OnFulfilled
    \/ OnRejected
    \/ Resume
    \/ TimeoutFires
    \/ Heartbeat

LiveSpec ==
    /\ Init
    /\ [][LiveNext]_vars
    /\ WF_vars(OnFulfilled)
    /\ WF_vars(OnRejected)
    /\ WF_vars(Resume)
    /\ WF_vars(TimeoutFires)

\* ------------------------------------------------------------ exceptions
\* The handler's catch block: the error as text.
WaitError == [isError |-> TRUE, text |-> "progress failed"]

\* server.progress throws inside a callback of a tracked promise: the
\* callback has updated the ledger, its promise rejects, so Promise.all and
\* the await reject; the finally block runs and the catch block returns.
CallbackThrows ==
    /\ microtasks # <<>>
    /\ Head(microtasks).job \in {"fulfilled", "rejected"}
    /\ phase = "waiting"
    /\ LET task == Head(microtasks).task
           value == Head(microtasks).value
           failure == FailureRecord(task, Head(microtasks).reason)
       IN  /\ completed_count' = completed_count + 1
           /\ completed_names' = Append(completed_names, task)
           /\ IF Head(microtasks).job = "rejected"
              THEN /\ providers_failed' = Append(providers_failed, failure)
                   /\ UNCHANGED <<providers_succeeded, results_by_provider,
                                  answers>>
              ELSE IF tool = "answer"
              THEN /\ answers' = Append(answers, build_answer_entry(task, value))
                   /\ UNCHANGED <<providers_succeeded, results_by_provider,
                                  providers_failed>>
              ELSE /\ providers_succeeded' = Append(providers_succeeded, task)
                   /\ results_by_provider' =
                          SetResults(results_by_provider, task, value)
                   /\ UNCHANGED <<answers, providers_failed>>
    /\ microtasks' = Tail(microtasks)
    /\ timer_armed' = FALSE
    /\ interval_armed' = FALSE
    /\ terminated' = (tool = "web_search" \/ terminated)
    /\ response' = WaitError
    /\ phase' = "returned"
    /\ UNCHANGED <<sse, api_key, tool, timeout_ms, tasks, op, promise, aborted,
                   progress_log, last_progress>>

ExceptionNext ==
    \/ Next
    \/ CallbackThrows

ExceptionSpec == Init /\ [][ExceptionNext]_vars

\* ------------------------------------------------------------ event stream
\* Text is a sequence of pieces of text: "LF" is a line feed, "CR" a carriage
\* return, " " a blank; 'data: ' is the two pieces "da" and "ta: ", and a JSON
\* payload is two pieces, so that a chunk can end inside either.
Whitespace == {" ", "CR"}

DataPrefix == <<"da", "ta: ">>

DeltaA == <<"{model:m1,content:a", "}">>
DeltaB == <<"{content:b", "}">>

\* Lines a server sends: deltas (one padded, with CR LF line ending), the
\* end marker, a payload that is cut off, a comment and an empty line.
EventLines ==
    {DataPrefix \o DeltaA,
     <<" ">> \o DataPrefix \o DeltaB \o <<"CR">>,
     DataPrefix \o <<"[DONE]">>,
     DataPrefix \o <<"{content:b">>,
     <<": ping">>,
     <<>>}

\* String.prototype.trim
RECURSIVE TrimStart(_)
TrimStart(text) ==
    IF text # <<>> /\ Head(text) \in Whitespace THEN TrimStart(Tail(text))
    ELSE text

RECURSIVE TrimEnd(_)
TrimEnd(text) ==
    IF text # <<>> /\ text[Len(text)] \in Whitespace
    THEN TrimEnd(SubSeq(text, 1, Len(text) - 1))
    ELSE text

Trim(text) == TrimEnd(TrimStart(text))

\* trimmed.startsWith('data: '), trimmed having no blank at its end
StartsWithData(trimmed) ==
    Len(trimmed) > 2 /\ SubSeq(trimmed, 1, 2) = DataPrefix

\* JSON.parse(data_str), chunk.model and chunk.choices?.[0]?.delta?.content
JsonParse(data_str) ==
    IF data_str = DeltaA THEN [ok |-> TRUE, model |-> "m1", content |-> "a"]
    ELSE IF data_str = DeltaB THEN [ok |-> TRUE, model |-> "", content |-> "b"]
    ELSE [ok |-> FALSE, model |-> "", content |-> ""]

\* process_line, on the pair (accumulated_content, model)
process_line(acc, line) ==
    LET trimmed == Trim(line)
        data_str == SubSeq(trimmed, 3, Len(trimmed))
        chunk == JsonParse(data_str)
    IN  IF trimmed = <<>> \/ ~StartsWithData(trimmed) THEN acc
        ELSE IF data_str = <<"[DONE]">> THEN acc
        ELSE IF ~chunk.ok THEN acc
        ELSE [model |-> IF chunk.model # "" THEN chunk.model ELSE acc.model,
              content |-> IF chunk.content # ""
                          THEN Append(acc.content, chunk.content)
                          ELSE acc.content]

\* buffer.split('\n')
RECURSIVE Split(_)
Split(text) ==
    IF \A i \in 1..Len(text) : text[i] # "LF" THEN <<text>>
    ELSE LET at == CHOOSE i \in 1..Len(text) :
                       text[i] = "LF" /\ \A j \in 1..(i - 1) : text[j] # "LF"
         IN  <<SubSeq(text, 1, at - 1)>>
                 \o Split(SubSeq(text, at + 1, Len(text)))

\* for (const line of lines) process_line(line)
RECURSIVE ProcessLines(_, _)
ProcessLines(acc, lines) ==
    IF lines = <<>> THEN acc
    ELSE ProcessLines(process_line(acc, Head(lines)), Tail(lines))

\* buffer = lines.pop() || ''
RemainderDropped(lines) == <<>>
Remainder(lines) == lines[Len(lines)]

handler ==
    <<api_key, tool, timeout_ms, phase, tasks, op, promise, aborted, terminated,
      timer_armed, interval_armed, completed_count, completed_names,
      providers_succeeded, providers_failed, results_by_provider, answers,
      microtasks, progress_log, last_progress, response>>

\* One round of the while loop: reader.read() delivers a chunk.
Read ==
    /\ consumer = "reading"
    /\ reader # <<>>
    /\ LET lines == Split(buffer \o Head(reader))
           acc == ProcessLines([content |-> accumulated_content, model |-> model],
                               SubSeq(lines, 1, Len(lines) - 1))
       IN  /\ buffer' = Remainder(lines)
           /\ accumulated_content' = acc.content
           /\ model' = acc.model
    /\ reader' = Tail(reader)
    /\ UNCHANGED <<body, consumer>>
    /\ UNCHANGED handler

\* reader.read() reports done: what is left in the buffer is processed and
\* the function returns.
StreamEnds ==
    /\ consumer = "reading"
    /\ reader = <<>>
    /\ LET acc == IF Trim(buffer) # <<>>
                  THEN process_line([content |-> accumulated_content,
                                     model |-> model], buffer)
                  ELSE [content |-> accumulated_content, model |-> model]
       IN  /\ accumulated_content' = acc.content
           /\ model' = acc.model
    /\ consumer' = "returned"
    /\ UNCHANGED <<body, reader, buffer>>
    /\ UNCHANGED handler

\* The lines joined by line feeds.
RECURSIVE Join(_)
Join(lines) ==
    IF lines = <<>> THEN <<>>
    ELSE IF Len(lines) = 1 THEN Head(lines)
    ELSE Head(lines) \o <<"LF">> \o Join(Tail(lines))

\* consume_sse_stream is called on a stream of at most MaxLines lines, its
\* last line with or without a line feed, delivered in MaxChunks chunks cut
\* anywhere (a chunk may be empty).
SseInit ==
    \E lines \in SeqUpTo(EventLines, MaxLines) :
        \E ending \in {<<>>, <<"LF">>} :
            LET text == Join(lines) \o ending
            IN  \E cuts \in [1..(MaxChunks - 1) -> 0..Len(text)] :
                    /\ \A i \in 1..(MaxChunks - 2) : cuts[i] <= cuts[i + 1]
                    /\ body = [i \in 1..MaxChunks |->
                                  Cut(text, cuts, MaxChunks, i)]
                    /\ reader = body
                    /\ buffer = <<>>
                    /\ accumulated_content = <<>>
                    /\ model = "brave"
                    /\ consumer = "reading"
                    /\ api_key = [r \in Rows |-> "undefined"]
                    /\ tool = "none"
                    /\ timeout_ms = Undefined
                    /\ phase = "idle"
                    /\ tasks = <<>>
                    /\ op = <<>>
                    /\ promise = <<>>
                    /\ aborted = FALSE
                    /\ terminated = FALSE
                    /\ timer_armed = FALSE
                    /\ interval_armed = FALSE
                    /\ completed_count = 0
                    /\ completed_names = <<>>
                    /\ providers_succeeded = <<>>
                    /\ providers_failed = <<>>
                    /\ results_by_provider = <<>>
                    /\ answers = <<>>
                    /\ microtasks = <<>>
                    /\ progress_log = <<>>
                    /\ last_progress = NoProgress
                    /\ response = <<>>

SseNext ==
    \/ Read
    \/ StreamEnds

SseSpec == SseInit /\ [][SseNext]_vars

\* ================================================================ claims
Returned == phase = "returned"

\* A web_search call has returned its summary.
WebSummary == Returned /\ tool = "web_search" /\ ~response.isError

TimedOutOf(r) ==
    IF "providers_timed_out" \in DOMAIN r THEN r.providers_timed_out ELSE <<>>

FailedNamesOf(r) ==
    [i \in 1..Len(r.providers_failed) |-> r.providers_failed[i].provider]

NoDuplicates(s) == \A i, j \in 1..Len(s) : i # j => s[i] # s[j]

Settled(n) == op[n].st \in {"resolved", "rejected"}

\* C1: in the summary web_search returns, the succeeded, failed and timed-out
\* lists partition providers_queried: together they hold every queried name,
\* no other name, and no name twice.
C1_OutcomesPartitionQueried ==
    WebSummary =>
        LET outcome == response.providers_succeeded \o FailedNamesOf(response)
                       \o TimedOutOf(response)
        IN  /\ Range(outcome) = Range(response.providers_queried)
            /\ NoDuplicates(outcome)
            /\ response.providers_queried = tasks

C1_Witness ==
    /\ WebSummary
    /\ Len(response.providers_queried) >= 2
    /\ Len(TimedOutOf(response)) >= 1
    /\ Len(response.providers_failed) >= 1

\* C2: once the deadline has fired and cancellation is signalled, a provider
\* that had no recorded outcome at the deadline (it is in the returned
\* providers_timed_out) is never added to providers_succeeded,
\* providers_failed, completed_names or results_by_provider, and
\* completed_count stays what the summary's lists account for.
C2_LedgerFrozenAfterDeadline ==
    (WebSummary /\ aborted) =>
        /\ \A i \in 1..Len(TimedOutOf(response)) :
              LET n == TimedOutOf(response)[i]
              IN  /\ ~Includes(completed_names, n)
                  /\ ~Includes(providers_succeeded, n)
                  /\ \A j \in 1..Len(providers_failed) :
                        providers_failed[j].provider # n
                  /\ \A j \in 1..Len(results_by_provider) :
                        results_by_provider[j].provider # n
        /\ completed_count =
               Len(response.providers_succeeded) + Len(response.providers_failed)

\* C3: a provider whose call has not completed when the deadline fires is in
\* providers_timed_out of the summary, and nothing of it is in the ranked
\* results: no entry names it as a source or carries its title, and every
\* entry's URL comes from a provider the summary lists as succeeded; the
\* summary is not changed by what the provider's call does later.
RECURSIVE UrlsOf(_)
UrlsOf(results) ==
    IF results = <<>> THEN {} ELSE {Head(results).url} \cup UrlsOf(Tail(results))

NothingFrom(r, n) ==
    /\ ~Includes(r.providers_succeeded, n)
    /\ \A i \in 1..Len(r.web_results) :
          /\ ~Includes(r.web_results[i].source_providers, n)
          /\ r.web_results[i].title[1] # n
          /\ \E m \in Range(r.providers_succeeded) :
                /\ Settled(m)
                /\ r.web_results[i].url \in UrlsOf(op[m].value)

C3_TimedOutProviderExcluded ==
    [][/\ (phase = "waiting" /\ phase' = "returned" /\ aborted') =>
              \A n \in Range(tasks) :
                  ~Settled(n) =>
                      /\ Includes(TimedOutOf(response'), n)
                      /\ NothingFrom(response', n)
       /\ (WebSummary /\ aborted) =>
              /\ response' = response
              /\ \A i \in 1..Len(TimedOutOf(response)) :
                    NothingFrom(response, TimedOutOf(response)[i])']_vars

C3_Witness ==
    /\ WebSummary
    /\ aborted
    /\ Len(response.web_results) >= 1
    /\ \E i \in 1..Len(TimedOutOf(response)) :
          LET n == TimedOutOf(response)[i]
          IN  op[n].st = "resolved" /\ Len(op[n].value) >= 1

\* ---------------------------------------------------------------- fusion claims
\* The result lists of the providers the summary lists as succeeded, in that
\* order, as their calls returned them.
SucceededLists ==
    [i \in 1..Len(response.providers_succeeded) |->
        [provider |-> response.providers_succeeded[i],
         results |-> op[response.providers_succeeded[i]].value]]

WebUrls(results) == [i \in 1..Len(results) |-> results[i].url]

\* The (url, score) pairs of a fused list.
UrlScores(results) ==
    {<<results[i].url, results[i].score>> : i \in 1..Len(results)}

\* 1 / (60 + r + 1), as a multiple of 1/Scale.
ReciprocalRank(r) == Scale \div (60 + r + 1)

ScoreKey(item) == IF "score" \in DOMAIN item THEN item.score ELSE 0

\* The zero-based position of item i after a stable sort by descending score:
\* the items that come before it.
StableRank(results, i) ==
    Cardinality({j \in 1..Len(results) :
                    \/ ScoreKey(results[j]) > ScoreKey(results[i])
                    \/ ScoreKey(results[j]) = ScoreKey(results[i]) /\ j < i})

RanksOfUrl(results, u) ==
    {StableRank(results, i) : i \in {j \in 1..Len(results) : results[j].url = u}}

RankedUrls(results) ==
    [r \in 1..Len(results) |->
        results[CHOOSE i \in 1..Len(results) : StableRank(results, i) = r - 1].url]

Contributors(lists, u) ==
    {i \in 1..Len(lists) : RanksOfUrl(lists[i].results, u) # {}}

RECURSIVE SumOfPicks(_, _)
SumOfPicks(pick, C) ==
    IF C = {} THEN 0
    ELSE LET i == CHOOSE j \in C : TRUE
         IN  ReciprocalRank(pick[i]) + SumOfPicks(pick, C \ {i})

\* C4: the fused ranked list holds each URL at most once.
C4_NoDuplicateUrls == WebSummary => NoDuplicates(WebUrls(response.web_results))

C4_Witness ==
    /\ WebSummary
    /\ Len(SucceededLists) >= 2
    /\ Len(response.web_results) >= 2
    /\ \E u \in URLs :
          /\ Cardinality({j \in 1..Len(SucceededLists[1].results) :
                             SucceededLists[1].results[j].url = u}) >= 2
          /\ u \in UrlsOf(SucceededLists[2].results)

\* C5: the fused score of a URL is the sum of exactly one reciprocal-rank
\* term per contributing provider (a term of a rank at which that provider
\* lists the URL), however often the provider repeats the URL.
C5_OneTermPerProvider ==
    WebSummary =>
        \A n \in 1..Len(response.web_results) :
            LET e == response.web_results[n]
                C == Contributors(SucceededLists, e.url)
            IN  \E pick \in [C -> 0..MaxRank] :
                    /\ \A i \in C :
                          pick[i] \in RanksOfUrl(SucceededLists[i].results, e.url)
                    /\ e.score = SumOfPicks(pick, C)

\* C6: when no provider repeats a URL, each URL's fused score is the sum over
\* the succeeded providers listing it of 1/(60 + r + 1), r its rank in that
\* provider's sorted list; and for A = [x, y], B = [y, z] the fused order is
\* y, x, z with both A and B as the sources of y.
NoProviderRepeats(lists) ==
    \A i \in 1..Len(lists) : NoDuplicates(WebUrls(lists[i].results))

C6_ScoreIsSumOfReciprocalRanks ==
    (WebSummary /\ NoProviderRepeats(SucceededLists)) =>
        /\ \A n \in 1..Len(response.web_results) :
              LET e == response.web_results[n]
                  C == Contributors(SucceededLists, e.url)
                  rank == [i \in C |->
                              CHOOSE r \in RanksOfUrl(SucceededLists[i].results,
                                                      e.url) : TRUE]
              IN  e.score = SumOfPicks(rank, C)
        /\ \A a, b \in 1..Len(SucceededLists) :
              (/\ Len(SucceededLists) = 2
               /\ RankedUrls(SucceededLists[a].results) = <<"x", "y">>
               /\ RankedUrls(SucceededLists[b].results) = <<"y", "z">>) =>
                  /\ WebUrls(response.web_results) = <<"y", "x", "z">>
                  /\ Range(response.web_results[1].source_providers) =
                         {SucceededLists[a].provider, SucceededLists[b].provider}

C6_Witness ==
    /\ WebSummary
    /\ Len(SucceededLists) = 2
    /\ WebUrls(SucceededLists[1].results) = <<"y", "x">>
    /\ RankedUrls(SucceededLists[1].results) = <<"x", "y">>
    /\ RankedUrls(SucceededLists[2].results) = <<"y", "z">>
    /\ WebUrls(response.web_results) = <<"y", "x", "z">>

\* The URLs of the sorted lists of the providers, one list after the other.
RECURSIVE UrlsInFoldOrder(_)
UrlsInFoldOrder(lists) ==
    IF lists = <<>> THEN <<>>
    ELSE RankedUrls(Head(lists).results) \o UrlsInFoldOrder(Tail(lists))

FirstPosition(s, u) == CHOOSE i \in 1..Len(s) : s[i] = u /\ \A j \in 1..(i - 1) : s[j] # u

SortedByScore(results) ==
    \A i, j \in 1..Len(results) : i < j => results[i].score >= results[j].score

\* Entries of equal score stand in the order in which a fold over lists
\* first meets their URLs.
TiesInDiscoveryOrder(results, lists) ==
    \A i, j \in 1..Len(results) :
        (i < j /\ results[i].score = results[j].score) =>
            FirstPosition(UrlsInFoldOrder(lists), results[i].url)
                < FirstPosition(UrlsInFoldOrder(lists), results[j].url)

\* The succeeded providers' lists in the order the providers were queried.
RECURSIVE InQueriedOrder(_, _)
InQueriedOrder(queried, lists) ==
    IF queried = <<>> THEN <<>>
    ELSE LET here == SelectSeq(lists, LAMBDA l : l.provider = Head(queried))
         IN  here \o InQueriedOrder(Tail(queried), lists)

ProviderOrders(k) == {f \in [1..k -> 1..k] : \A i, j \in 1..k : f[i] = f[j] => i = j}

FusedInOrder(f) == DedupedWebResults([i \in 1..Len(SucceededLists) |-> SucceededLists[f[i]]])

SameUrlsAndScores(a, b) ==
    /\ Len(a) = Len(b)
    /\ UrlScores(a) = UrlScores(b)

NoTies(results) ==
    \A i, j \in 1..Len(results) : i # j => results[i].score # results[j].score

NoKeyIsSet == \A r \in Rows : api_key[r] \in {"undefined", "", " "}

\* C9: with no provider enabled (every API key undefined, empty or blank) a
\* call of web_search or of answer returns the 'no providers configured'
\* error result, not a summary; no provider is invoked and no progress call
\* is made.
C9_NoProvidersIsAnError ==
    (tool # "none" /\ NoKeyIsSet) =>
        /\ Returned
        /\ response.isError
        /\ response.text = (IF tool = "answer" THEN "No AI providers configured."
                            ELSE "No providers configured.")
        /\ DOMAIN response = {"isError", "text"}
        /\ tasks = <<>>
        /\ DOMAIN op = {}
        /\ progress_log = <<>>
        /\ last_progress = NoProgress
        /\ ~interval_armed /\ ~timer_armed

C9_Witness ==
    /\ tool = "answer"
    /\ Returned
    /\ response.isError
    /\ \E r \in Rows : api_key[r] = " "

\* C10: with at least one provider enabled the call returns a summary, never
\* an error result, whatever the providers do; when it returns without a
\* deadline having fired, every provider has settled, each provider whose
\* call failed is in providers_failed with the message of its last error, and
\* each provider whose call succeeded is in providers_succeeded with its
\* results fused (web_search) or its answer entry present (answer).
HasFailure(r, n, message) ==
    \E i \in 1..Len(r.providers_failed) :
        r.providers_failed[i] = [provider |-> n, error |-> message]

C10_FailuresDoNotAbortTheBatch ==
    (Returned /\ tasks # <<>>) =>
        /\ ~response.isError
        /\ response.providers_queried = tasks
        /\ ~aborted =>
              \A n \in Range(tasks) :
                  /\ Settled(n)
                  /\ op[n].st = "rejected" =>
                        HasFailure(response, n, op[n].error.message)
                  /\ op[n].st = "resolved" =>
                        /\ Includes(response.providers_succeeded, n)
                        /\ tool = "web_search" =>
                              UrlsOf(op[n].value)
                                  \subseteq Range(WebUrls(response.web_results))
                        /\ tool = "answer" =>
                              \E i \in 1..Len(response.answers) :
                                  response.answers[i].source = n

C10_Witness ==
    /\ WebSummary
    /\ ~aborted
    /\ response.providers_failed = <<[provider |-> "tavily", error |-> "provider error"]>>
    /\ response.providers_succeeded = <<"brave">>
    /\ Len(response.web_results) >= 1

\* ---------------------------------------------------------------- progress
\* A tool call with at least one enabled provider has returned.
Finalized == Returned /\ ~response.isError

\* The names with an outcome in the ledger, and the tasks without one.
Recorded ==
    Range(providers_succeeded)
    \cup {providers_failed[i].provider : i \in 1..Len(providers_failed)}
    \cup {answers[i].source : i \in 1..Len(answers)}

Unrecorded == SelectSeq(tasks, LAMBDA n : n \notin Recorded)

EventOf(call) == call.message.event

\* The positions of the terminal events of the run in the progress sink.
TerminalIndices ==
    {i \in 1..Len(progress_log) :
        EventOf(progress_log[i]) \in {"all_done", "timeout"}}

\* C11: a run with at least one enabled provider emits exactly one terminal
\* progress event, at finalize and not before: 'all_done', or 'timeout' with
\* timed_out = the tasks without a recorded outcome at that moment, and the
\* providers_timed_out of the returned summary is that same list.
C11_OneTerminalEventAtFinalize ==
    /\ [](/\ ~Returned => TerminalIndices = {}
          /\ Finalized => TerminalIndices = {Len(progress_log)})
    /\ [][(phase = "waiting" /\ phase' = "returned") =>
            /\ progress_log'[Len(progress_log')].message =
                   (IF Unrecorded = <<>> THEN [event |-> "all_done"]
                    ELSE [event |-> "timeout", timed_out |-> Unrecorded])
            /\ TimedOutOf(response') = Unrecorded
            /\ Len(progress_log') = Len(progress_log) + 1]_vars

C11_Witness ==
    /\ Finalized
    /\ tool = "web_search"
    /\ EventOf(progress_log[Len(progress_log)]) = "timeout"
    /\ progress_log[Len(progress_log)].message.timed_out = <<"brave">>
    /\ response.providers_timed_out = <<"brave">>
    /\ response.providers_succeeded = <<"tavily">>

\* C12: once the run is finalized nothing more reaches the progress sink:
\* after the terminal event no progress call of a callback or of the
\* heartbeat is sent, also when provider promises settle or are rejected by
\* the cancellation afterwards.
C12_NoProgressAfterFinalize ==
    [][(terminated \/ Returned) =>
          /\ progress_log' = progress_log
          /\ last_progress' = last_progress]_vars

C12_Witness ==
    /\ Finalized
    /\ tool = "web_search"
    /\ terminated
    /\ \E n \in Range(TimedOutOf(response)) :
          /\ Includes(completed_names, n)
          /\ \E i \in 1..Len(providers_failed) :
                providers_failed[i] = [provider |-> n, error |-> "Search timeout"]
    /\ \E n \in Range(TimedOutOf(response)) : op[n].st = "resolved"
    /\ EventOf(progress_log[Len(progress_log)]) = "timeout"
    /\ last_progress = progress_log[Len(progress_log)]

\* The call is the terminal event of provider n: its provider_done, its
\* provider_failed, or the timeout event that lists it.
IsTerminalFor(call, n) ==
    LET m == call.message
    IN  \/ /\ m.event \in {"provider_done", "provider_failed"}
           /\ "provider" \in DOMAIN m
           /\ m.provider = n
        \/ /\ m.event = "provider_done"
           /\ "entry" \in DOMAIN m
           /\ m.entry.source = n
        \/ /\ m.event = "timeout"
           /\ Includes(m.timed_out, n)

TerminalEventsOf(n) ==
    {i \in 1..Len(progress_log) : IsTerminalFor(progress_log[i], n)}

ProviderNames == Range(web_sub_providers) \cup Range(ai_sub_providers)

\* C13: the progress events about a provider are ordered: the start event is
\* the first event of the run and names the provider, a heartbeat lists the
\* provider as pending only while no terminal event of the provider has been
\* sent, and the provider gets at most one terminal event (its provider_done,
\* its provider_failed, or the timeout event listing it), exactly one once the
\* run is finalized.
C13_ProviderEventsOrdered ==
    /\ \A i \in 1..Len(progress_log) :
          (EventOf(progress_log[i]) = "start") <=> (i = 1)
    /\ \A n \in ProviderNames :
          /\ Cardinality(TerminalEventsOf(n)) <= 1
          /\ TerminalEventsOf(n) # {} =>
                 /\ progress_log[1].message.names = tasks
                 /\ Includes(tasks, n)
          /\ (Finalized /\ Includes(tasks, n)) =>
                 Cardinality(TerminalEventsOf(n)) = 1
    /\ EventOf(last_progress) = "waiting" =>
          /\ progress_log # <<>>
          /\ \A n \in Range(last_progress.message.pending) :
                /\ Includes(progress_log[1].message.names, n)
                /\ TerminalEventsOf(n) = {}

C13_Witness ==
    /\ phase = "waiting"
    /\ EventOf(last_progress) = "waiting"
    /\ last_progress.message.pending = <<"brave">>
    /\ last_progress.message.done = <<"tavily">>
    /\ TerminalEventsOf("tavily") = {2}
    /\ EventOf(progress_log[1]) = "start"

\* C14: a task's outcome is recorded, and its provider_done or
\* provider_failed event sent, as soon as the task settles, whatever its
\* siblings do: whenever the event loop is between macrotasks during the wait,
\* every task that has settled is in the completed set, has its entry in the
\* ledger and its event in the sink, and a heartbeat sent since lists it as
\* done.
C14_RecordedWithoutWaitingForSiblings ==
    (phase = "waiting" /\ microtasks = <<>>) =>
        /\ \A n \in Range(tasks) :
              Settled(n) =>
                  /\ Includes(completed_names, n)
                  /\ n \in Recorded
                  /\ TerminalEventsOf(n) # {}
                  /\ EventOf(last_progress) = "waiting" =>
                         /\ Includes(last_progress.message.done, n)
                         /\ ~Includes(last_progress.message.pending, n)
        /\ completed_count = Cardinality({n \in Range(tasks) : Settled(n)})

C14_Witness ==
    /\ phase = "waiting"
    /\ microtasks = <<>>
    /\ tasks = <<"tavily", "brave">>
    /\ op["tavily"].st = "sleeping"
    /\ op["brave"].st = "rejected"
    /\ completed_names = <<"brave">>
    /\ Len(providers_failed) = 1
    /\ providers_failed[1].provider = "brave"
    /\ EventOf(last_progress) = "waiting"
    /\ last_progress.message.done = <<"brave">>
    /\ last_progress.message.pending = <<"tavily">>

\* ---------------------------------------------------------------- the wait
\* timeout_ms is absent, null, zero or negative.
NoDeadline(t) == t.kind \in {"undefined", "null"} \/ t.ms <= 0

\* C15: without a deadline (timeout_ms absent, null, zero or negative) the
\* handler waits for every task: no timer is armed and nothing is cancelled,
\* and when it returns every queried provider has settled and has its outcome
\* in the summary, the terminal event is 'all_done' and no provider is
\* reported as timed out.
C15_NoDeadlineWaitsForAll ==
    (tool # "none" /\ NoDeadline(timeout_ms)) =>
        /\ ~timer_armed
        /\ ~aborted
        /\ Finalized =>
              /\ \A n \in Range(tasks) : Settled(n)
              /\ Range(response.providers_succeeded)
                     \cup Range(FailedNamesOf(response)) = Range(tasks)
              /\ "providers_timed_out" \notin DOMAIN response
              /\ progress_log[Len(progress_log)].message = [event |-> "all_done"]
              /\ \A i \in 1..Len(progress_log) :
                    EventOf(progress_log[i]) # "timeout"

C15_Witness ==
    /\ Finalized
    /\ tool = "web_search"
    /\ timeout_ms = Number(-1)
    /\ tasks = <<"tavily", "brave">>
    /\ op["tavily"].st = "resolved"
    /\ op["tavily"].calls = 2
    /\ op["brave"].st = "rejected"
    /\ response.providers_succeeded = <<"tavily">>
    /\ FailedNamesOf(response) = <<"brave">>

\* web_search was called with timeout_ms set and greater than zero.
HasDeadline == tool = "web_search" /\ timeout_ms.kind = "number" /\ timeout_ms.ms > 0

\* C16: with timeout_ms set and greater than zero the call returns its
\* summary even if provider calls never complete, given that the timer fires;
\* it returns at the earlier of 'all tasks finished' and 'timeout elapsed':
\* the timer is armed throughout the wait, the handler never stays in the wait
\* once every task has settled, and it leaves the wait either with every task
\* settled and nothing cancelled or by the timer with some task unsettled.
C16_DeadlineRunFinalizes ==
    /\ (phase = "waiting" /\ HasDeadline) ~> Finalized
    /\ []((phase = "waiting" /\ HasDeadline) =>
             /\ timer_armed
             /\ microtasks = <<>> => \E n \in Range(tasks) : ~Settled(n))
    /\ [][(phase = "waiting" /\ HasDeadline /\ phase' = "returned") =>
            \/ /\ \A n \in Range(tasks) : Settled(n)
               /\ ~aborted'
               /\ TimedOutOf(response') = <<>>
            \/ /\ \E n \in Range(tasks) : ~Settled(n)
               /\ aborted'
               /\ TimedOutOf(response') =
                      SelectSeq(tasks, LAMBDA n : ~Settled(n))]_vars

C16_Witness ==
    /\ Finalized
    /\ HasDeadline
    /\ aborted
    /\ tasks = <<"tavily", "brave">>
    /\ op["tavily"].st = "running"
    /\ op["brave"].st = "running"
    /\ response.providers_timed_out = tasks
    /\ response.web_results = <<>>

\* ---------------------------------------------------------------- the ledger
\* Every outcome in the ledger is there completely: the completed name, the
\* count, the succeeded or failed entry and, on success, the results.
LedgerComplete ==
    /\ completed_count = Len(completed_names)
    /\ NoDuplicates(completed_names)
    /\ Range(completed_names) = Recorded
    /\ Len(providers_succeeded) + Len(answers) + Len(providers_failed)
           = completed_count
    /\ tool = "web_search" =>
          /\ [i \in 1..Len(results_by_provider) |->
                 results_by_provider[i].provider] = providers_succeeded
          /\ \A i \in 1..Len(results_by_provider) :
                results_by_provider[i].results =
                    op[results_by_provider[i].provider].value
    /\ tool = "answer" =>
          \A i \in 1..Len(answers) :
              answers[i] = build_answer_entry(answers[i].source,
                                              op[answers[i].source].value)

\* C17: adding an outcome and reading the ledger at finalize never race: in
\* every state the ledger holds each outcome completely or not at all, and
\* the step that finalizes web_search computes the summary, the terminal
\* event and the fused results from the one ledger of that moment: a provider
\* is in the summary with its count and all of its results, or is reported as
\* timed out and contributes nothing.
C17_FinalizeReadsOneSnapshot ==
    /\ []LedgerComplete
    /\ [][(phase = "waiting" /\ phase' = "returned" /\ tool = "web_search") =>
            LET final == progress_log'[Len(progress_log')]
            IN  /\ response'.providers_succeeded = providers_succeeded
                /\ response'.providers_failed = providers_failed
                /\ TimedOutOf(response') = Unrecorded
                /\ final.current = Len(providers_succeeded) + Len(providers_failed)
                /\ final.total = Len(tasks)
                /\ final.message = FinalMessage(Unrecorded)
                /\ Range(WebUrls(response'.web_results)) =
                       UNION {UrlsOf(op[n].value) : n \in Range(providers_succeeded)}
                /\ \A i \in 1..Len(response'.web_results) :
                      Range(response'.web_results[i].source_providers) =
                          {n \in Range(providers_succeeded) :
                              response'.web_results[i].url \in UrlsOf(op[n].value)}]_vars

C17_Witness ==
    /\ Finalized
    /\ tool = "web_search"
    /\ tasks = <<"tavily", "brave">>
    /\ response.providers_succeeded = <<"brave">>
    /\ response.providers_timed_out = <<"tavily">>
    /\ op["tavily"].st = "resolved"
    /\ WebUrls(op["tavily"].value) = <<"x">>
    /\ WebUrls(op["brave"].value) = <<"y">>
    /\ WebUrls(response.web_results) = <<"y">>
    /\ progress_log[Len(progress_log)].current = 1

\* ---------------------------------------------------------------- retries
\* C18: under the policy of every provider task, in both tools (max_retries =
\* 1, base_delay_ms = 500), the operation is called at most twice; it is
\* called a second time only after the first call failed and after exactly
\* one sleep, of base_delay_ms; when the first call succeeds there is no
\* second call and no sleep.
C18_AtMostTwoCallsOneSleep ==
    /\ [](\A n \in DOMAIN op :
            /\ op[n].max_retries = 1
            /\ op[n].base_delay_ms = 500
            /\ op[n].calls \in {1, 2}
            /\ op[n].calls = 2 => op[n].slept = <<op[n].base_delay_ms>>
            /\ (op[n].calls = 1 /\ op[n].st # "sleeping") => op[n].slept = <<>>
            /\ op[n].st = "sleeping" =>
                   /\ op[n].calls = 1
                   /\ op[n].error.attempt = 1
                   /\ op[n].slept = <<op[n].base_delay_ms>>)
    /\ [][\A n \in DOMAIN op :
            /\ (n \in DOMAIN op' /\ op'[n].calls # op[n].calls) =>
                   /\ op[n].st = "sleeping"
                   /\ op'[n].calls = 2
                   /\ op'[n].slept = op[n].slept
            /\ op[n].st = "resolved" => (n \in DOMAIN op' /\ op'[n] = op[n])]_vars

C18_Witness ==
    /\ Finalized
    /\ tool = "answer"
    /\ tasks = <<"perplexity", "kagi_fastgpt">>
    /\ op["perplexity"].st = "resolved"
    /\ op["perplexity"].calls = 2
    /\ op["perplexity"].slept = <<500>>
    /\ op["perplexity"].error.attempt = 1
    /\ op["kagi_fastgpt"].st = "resolved"
    /\ op["kagi_fastgpt"].calls = 1
    /\ op["kagi_fastgpt"].slept = <<>>

\* C19: retry_with_backoff fails only when all max_retries + 1 calls have
\* failed, and then with the error of the last call; a failed call is retried
\* whatever its error while calls are left; the result of the first call that
\* succeeds is returned and nothing is called after it.
C19_FailsWithLastErrorAfterAllAttempts ==
    /\ [](\A n \in DOMAIN op :
            /\ op[n].calls <= op[n].max_retries + 1
            /\ Len(op[n].slept) =
                   (IF op[n].st = "sleeping" THEN op[n].calls ELSE op[n].calls - 1)
            /\ op[n].st = "rejected" =>
                   /\ op[n].calls = op[n].max_retries + 1
                   /\ op[n].error.attempt = op[n].calls
                   /\ op[n].error.message \in ErrorKinds
                   /\ \A i \in 1..Len(providers_failed) :
                         providers_failed[i].provider = n =>
                             providers_failed[i].error = op[n].error.message
            /\ op[n].st = "resolved" =>
                   \A i \in 1..Len(results_by_provider) :
                       results_by_provider[i].provider = n =>
                           results_by_provider[i].results = op[n].value)
    /\ [][\A n \in DOMAIN op :
            /\ (op[n].st = "running" /\ op'[n].st = "sleeping") =>
                   /\ op[n].calls <= op[n].max_retries
                   /\ op'[n].error.attempt = op[n].calls
            /\ (op[n].st = "running" /\ op'[n].st = "rejected") =>
                   /\ op[n].calls = op[n].max_retries + 1
                   /\ op'[n].error.attempt = op[n].calls
            /\ (op[n].st = "running" /\ op'[n].st = "resolved") =>
                   /\ op'[n].calls = op[n].calls
                   /\ op'[n].value \in {Titled(n, r) : r \in Replies}
            /\ op[n].st \in {"resolved", "rejected"} => op'[n] = op[n]]_vars

C19_Witness ==
    /\ Finalized
    /\ tasks = <<"tavily">>
    /\ op["tavily"].max_retries = 2
    /\ op["tavily"].st = "rejected"
    /\ op["tavily"].calls = 3
    /\ op["tavily"].error = OperationError("rate limited", 3)
    /\ response.providers_failed =
           <<[provider |-> "tavily", error |-> "rate limited"]>>

OtherScores == {0, 2}

\* results with the score of item i replaced by s[i].
Rescored(results, s) ==
    [i \in 1..Len(results) |->
        [title |-> results[i].title, url |-> results[i].url,
         snippet |-> results[i].snippet, score |-> s[i]]]

\* Two lists of equal length put their items in the same sorted order: a
\* stable descending sort moves a later item before an earlier one exactly
\* when its score is strictly higher.
SameSortedOrder(a, b) ==
    \A i, j \in 1..Len(a) :
        i < j => (ScoreKey(a[j]) > ScoreKey(a[i])
                     <=> ScoreKey(b[j]) > ScoreKey(b[i]))

\* C21: the fused list depends on a provider's raw scores only through the
\* sorted order they induce: replacing the scores of any one succeeded
\* provider by other scores that sort its items the same way leaves every
\* fused score and the ranked list as they are.
C21_RawScoresMatterOnlyThroughOrder ==
    WebSummary =>
        \A i \in 1..Len(SucceededLists) :
            \A s \in [1..Len(SucceededLists[i].results) -> OtherScores] :
                LET other == Rescored(SucceededLists[i].results, s)
                IN  SameSortedOrder(SucceededLists[i].results, other) =>
                        DedupedWebResults(
                            [SucceededLists EXCEPT ![i].results = other])
                            = response.web_results

C21_Witness ==
    /\ WebSummary
    /\ Len(SucceededLists) = 2
    /\ SucceededLists[1].results =
           Titled("tavily", <<Unscored("x"), Scored("y", 1)>>)
    /\ WebUrls(SucceededLists[2].results) = <<"y", "z">>
    /\ WebUrls(response.web_results) = <<"y", "x", "z">>
    /\ SameSortedOrder(SucceededLists[1].results,
                       Rescored(SucceededLists[1].results, <<0, 2>>))


\* C22: within each succeeded provider the rank of an item is its position
\* after a stable sort by descending score, a missing score counting as 0
\* (items of equal score keep the order the provider returned them in), and
\* the merge leaves the list the provider returned in its order.
C22_RankIsStableDescendingSort ==
    WebSummary =>
        \A n \in 1..Len(SucceededLists) :
            LET returned == SucceededLists[n].results
                ranked == Ranked(returned)
            IN  /\ Len(ranked) = Len(returned)
                /\ \A i \in 1..Len(returned) :
                      ranked[StableRank(returned, i) + 1] = returned[i]
                /\ \E m \in 1..Len(results_by_provider) :
                      /\ results_by_provider[m].provider =
                             SucceededLists[n].provider
                      /\ results_by_provider[m].results = returned

C22_Witness ==
    /\ WebSummary
    /\ Len(SucceededLists) = 1
    /\ SucceededLists[1].results =
           Titled("tavily", <<Unscored("x"), Scored("y", 1), Unscored("y"),
                              Scored("x", 1)>>)
    /\ WebUrls(Ranked(SucceededLists[1].results)) = <<"y", "x", "x", "y">>
    /\ results_by_provider[1].results = SucceededLists[1].results


\* The items of the succeeded lists that carry URL u, as (provider index,
\* item index) pairs.
Occurrences(lists, u) ==
    {<<n, i>> \in (1..Len(lists)) \X (1..MaxItems) :
        i <= Len(lists[n].results) /\ lists[n].results[i].url = u}

\* The occurrence of u a fold over the sorted lists meets first: in the first
\* list that has u, the item of u that sorts first.
FirstOccurrence(lists, u) ==
    CHOOSE o \in Occurrences(lists, u) :
        \A p \in Occurrences(lists, u) :
            \/ o[1] < p[1]
            \/ /\ o[1] = p[1]
               /\ StableRank(lists[o[1]].results, o[2])
                      <= StableRank(lists[p[1]].results, p[2])

\* C23: each fused entry carries the title of the first occurrence of its
\* URL met during the fold; its snippets are the non-empty snippets of the
\* URL's items, none twice; and its source_providers are the providers that
\* returned the URL, each once however often it returned the URL.
C23_FirstTitleDistinctSnippetsAndProviders ==
    WebSummary =>
        \A n \in 1..Len(response.web_results) :
            LET e == response.web_results[n]
                occ == Occurrences(SucceededLists, e.url)
                first == FirstOccurrence(SucceededLists, e.url)
            IN  /\ e.title = SucceededLists[first[1]].results[first[2]].title
                /\ NoDuplicates(e.snippets)
                /\ Range(e.snippets) =
                       {SucceededLists[o[1]].results[o[2]].snippet : o \in occ}
                           \ {""}
                /\ NoDuplicates(e.source_providers)
                /\ Range(e.source_providers) =
                       {SucceededLists[o[1]].provider : o \in occ}

C23_Witness ==
    /\ WebSummary
    /\ Len(SucceededLists) = 2
    /\ SucceededLists[1].results =
           Titled("tavily", <<Unscored("x"), Scored("x", 1), Unscored("y")>>)
    /\ SucceededLists[2].results = Titled("brave", <<Scored("x", 1)>>)
    /\ \E n \in 1..Len(response.web_results) :
          /\ response.web_results[n].url = "x"
          /\ response.web_results[n].title = <<"tavily", 2>>
          /\ response.web_results[n].snippets = <<"about x", "more about x">>
          /\ response.web_results[n].source_providers = <<"tavily", "brave">>
    /\ \E n \in 1..Len(response.web_results) :
          /\ response.web_results[n].url = "y"
          /\ response.web_results[n].snippets = <<>>


\* ---------------------------------------------------------------- what is fused
\* C24: the URLs of the ranked results are exactly the URLs returned by the
\* providers the summary lists as succeeded, and every entry's
\* source_providers is a non-empty list of succeeded providers, none of
\* them failed or timed out; no entry stems from an item of another provider.
C24_FusionOverSucceededOnly ==
    WebSummary =>
        /\ UrlsOf(response.web_results) =
               UNION {UrlsOf(op[m].value) : m \in Range(response.providers_succeeded)}
        /\ \A n \in 1..Len(response.web_results) :
              LET e == response.web_results[n]
              IN  /\ e.source_providers # <<>>
                  /\ Range(e.source_providers)
                         \subseteq Range(response.providers_succeeded)
                  /\ Range(e.source_providers)
                         \cap (Range(FailedNamesOf(response))
                                   \cup Range(TimedOutOf(response))) = {}
                  /\ e.title[1] \in Range(response.providers_succeeded)

C24_Witness ==
    /\ WebSummary
    /\ response.providers_succeeded = <<"tavily">>
    /\ TimedOutOf(response) = <<"brave">>
    /\ op["brave"].st = "resolved"
    /\ WebUrls(op["brave"].value) = <<"y">>
    /\ WebUrls(response.web_results) = <<"x">>
    /\ response.web_results[1].source_providers = <<"tavily">>


\* ---------------------------------------------------------------- agreement
\* Zero-based ranks 0..60: the first 61 positions of a provider's sorted list.
AmongFirst61(results, u) == \A r \in RanksOfUrl(results, u) : r <= 60

\* C25: a URL returned by only one provider never has a strictly higher
\* fused score than a URL returned by two or more providers, each of which
\* ranks it among its first 61 positions.
C25_OneProviderNeverOutranksAgreement ==
    WebSummary =>
        \A m, n \in 1..Len(response.web_results) :
            LET single == response.web_results[m]
                agreed == response.web_results[n]
                backers == Contributors(SucceededLists, agreed.url)
            IN  (/\ Cardinality(Contributors(SucceededLists, single.url)) = 1
                 /\ Cardinality(backers) >= 2
                 /\ \A i \in backers :
                       AmongFirst61(SucceededLists[i].results, agreed.url)) =>
                    single.score <= agreed.score


\* ---------------------------------------------------------------- determinism
\* C26: the ranked list is a function of the providers that succeeded, the
\* order in which they completed and the lists they returned: in every
\* returned summary, however the run got there (deadline or none, failures,
\* retries, heartbeats, late replies), web_results is the fusion of exactly
\* these lists in this order, so two runs that agree on them return the same
\* list: same URLs, scores, titles, snippets, source_providers and order.
C26_RankedListIsFunctionOfSucceededLists ==
    WebSummary => response.web_results = DedupedWebResults(SucceededLists)

C26_Witness ==
    /\ WebSummary
    /\ HasDeadline
    /\ tasks = <<"tavily", "brave">>
    /\ response.providers_succeeded = <<"brave", "tavily">>
    /\ op["tavily"].calls = 2
    /\ Len(response.web_results) = 2
    /\ response.web_results = DedupedWebResults(SucceededLists)


\* ---------------------------------------------------------------- answers
AnswerSummary == Returned /\ tool = "answer" /\ ~response.isError

\* The items after the first that carry a url.
CitedItems(items) ==
    IF items = <<>> THEN <<>>
    ELSE SelectSeq(Tail(items), LAMBDA c : c.url # "")

\* C27: the answer summary holds one entry per provider whose call
\* succeeded and none for a provider whose call failed; an entry's answer is
\* the snippet of the provider's first item, or 'No answer returned' when
\* there is no item or the first snippet is empty; its citations are the
\* items after the first that carry a url, in order, never the first item.
C27_OneAnswerEntryPerSucceededProvider ==
    AnswerSummary =>
        /\ NoDuplicates([i \in 1..Len(response.answers) |->
                            response.answers[i].source])
        /\ {response.answers[i].source : i \in 1..Len(response.answers)} =
               {n \in Range(tasks) : op[n].st = "resolved"}
        /\ \A i \in 1..Len(response.answers) :
              LET e == response.answers[i]
                  items == op[e.source].value
                  cited == CitedItems(items)
              IN  /\ e.answer =
                         IF items = <<>> \/ items[1].snippet = ""
                         THEN "No answer returned"
                         ELSE items[1].snippet
                  /\ Len(e.citations) = Len(cited)
                  /\ \A j \in 1..Len(cited) :
                        /\ e.citations[j].title = cited[j].title
                        /\ e.citations[j].url = cited[j].url
                        /\ e.citations[j].title # <<e.source, 1>>

C27_Witness ==
    /\ AnswerSummary
    /\ tasks = <<"perplexity", "kagi_fastgpt">>
    /\ op["perplexity"].st = "rejected"
    /\ WebUrls(op["kagi_fastgpt"].value) = <<"x", "", "x">>
    /\ Len(response.answers) = 1
    /\ response.answers[1].source = "kagi_fastgpt"
    /\ response.answers[1].answer = "about x"
    /\ Len(response.answers[1].citations) = 1
    /\ response.answers[1].citations[1].title = <<"kagi_fastgpt", 3>>


\* ---------------------------------------------------------------- cancellation
\* The handler has returned on its deadline and the event loop is idle.
ReturnedOnTimeout == Returned /\ aborted /\ microtasks = <<>>

\* C28: the deadline leaves every provider call as it is, and once the
\* handler has returned on it, a call still running can return or throw and
\* a retry that is waiting for its backoff delay is still made.
C28_TimeoutDoesNotStopCalls ==
    /\ [][(~aborted /\ aborted') => op' = op]_vars
    /\ [](ReturnedOnTimeout =>
             \A n \in DOMAIN op :
                 /\ op[n].st = "sleeping" => ENABLED BackoffElapses(n)
                 /\ op[n].st = "running" =>
                        /\ ENABLED OperationSucceeds(n, <<>>)
                        /\ ENABLED OperationFails(n))

C28_Witness ==
    /\ ReturnedOnTimeout
    /\ tasks = <<"tavily", "brave">>
    /\ TimedOutOf(response) = <<"tavily", "brave">>
    /\ op["tavily"].st = "sleeping"
    /\ ENABLED BackoffElapses("tavily")
    /\ op["brave"].st = "resolved"
    /\ op["brave"].calls = 2


\* ---------------------------------------------------------------- heartbeat
\* The last progress call is a heartbeat.
IsWaiting(call) == EventOf(call) = "waiting"

\* C29: a heartbeat is emitted only while the handler is at its await with a
\* task that has no recorded outcome yet, and it lists the recorded tasks as
\* done and the others as pending: the two lists are disjoint, together they
\* are the queried providers, and pending is not empty.
C29_HeartbeatOnlyWhilePending ==
    /\ [][(IsWaiting(last_progress') /\ last_progress' # last_progress) =>
             /\ phase = "waiting" /\ phase' = "waiting"
             /\ response = <<>>
             /\ PendingNames(tasks, completed_names) # <<>>
             /\ last_progress'.message.done = completed_names]_vars
    /\ [](IsWaiting(last_progress) =>
             LET done == Range(last_progress.message.done)
                 pending == Range(last_progress.message.pending)
             IN  /\ pending # {}
                 /\ done \cap pending = {}
                 /\ done \cup pending = Range(tasks)
                 /\ NoDuplicates(last_progress.message.done
                                     \o last_progress.message.pending))

C29_Witness ==
    /\ IsWaiting(last_progress)
    /\ tool = "web_search"
    /\ phase = "waiting"
    /\ last_progress.message.done = <<"brave">>
    /\ last_progress.message.pending = <<"tavily">>
    /\ last_progress.current = 1


\* ---------------------------------------------------------------- terminal event
\* The terminal event is 'timeout' exactly when some task is unrecorded, it
\* then lists at least one task, and the summary r has the
\* providers_timed_out field, non-empty, in exactly that case.
TimeoutIffUnrecorded(final, r, unrecorded) ==
    /\ EventOf(final) \in {"timeout", "all_done"}
    /\ EventOf(final) = "timeout" <=> unrecorded # <<>>
    /\ EventOf(final) = "timeout" => final.message.timed_out # <<>>
    /\ "providers_timed_out" \in DOMAIN r <=> unrecorded # <<>>
    /\ "providers_timed_out" \in DOMAIN r => r.providers_timed_out # <<>>

\* C30: at finalize the terminal event is 'timeout' if and only if a queried
\* provider has no recorded outcome; a 'timeout' event never lists no
\* provider; the summary has providers_timed_out only when it is non-empty;
\* and a handler that resumes on its deadline with every provider recorded
\* sends 'all_done' and returns a summary without the field.
C30_TimeoutIffSomeProviderUnrecorded ==
    /\ [][(phase = "waiting" /\ phase' = "returned") =>
             TimeoutIffUnrecorded(progress_log'[Len(progress_log')], response',
                                  Unrecorded)]_vars
    /\ [](phase = "waiting" =>
             TimeoutIffUnrecorded(
                 ProgressCall(completed_count, Len(tasks), FinalMessage(<<>>)),
                 WebSearchResponse(tasks, providers_succeeded, providers_failed,
                                   <<>>, <<>>),
                 <<>>))

C30_Witness ==
    /\ Finalized
    /\ HasDeadline
    /\ tasks = <<"tavily", "brave">>
    /\ ~aborted
    /\ response.providers_succeeded = <<"brave">>
    /\ FailedNamesOf(response) = <<"tavily">>
    /\ EventOf(progress_log[Len(progress_log)]) = "all_done"
    /\ "providers_timed_out" \notin DOMAIN response


\* ---------------------------------------------------------------- counters
IsProviderEvent(call) == EventOf(call) \in {"provider_done", "provider_failed"}

\* C31: in a web_search run up to finalize, completed_count is the number of
\* completed names, which is the number of succeeded plus failed providers
\* and at most the number of tasks; the current value of successive progress
\* events never decreases, and each provider_done or provider_failed event
\* carries the current of the event before it plus one.
C31_CompletedCountCountsOutcomes ==
    /\ []((tool = "web_search" /\ phase = "waiting") =>
             /\ completed_count = Len(completed_names)
             /\ completed_count =
                    Len(providers_succeeded) + Len(providers_failed)
             /\ completed_count <= Len(tasks)
             /\ last_progress.current = completed_count)
    /\ [][(tool' = "web_search" /\ phase = "waiting"
              /\ last_progress' # last_progress) =>
             /\ last_progress'.current >= last_progress.current
             /\ IsProviderEvent(last_progress') =>
                    last_progress'.current = last_progress.current + 1
             /\ phase' = "returned" =>
                    /\ last_progress'.current = completed_count
                    /\ completed_count' = completed_count]_vars

C31_Witness ==
    /\ tool = "web_search"
    /\ phase = "waiting"
    /\ tasks = <<"tavily", "brave">>
    /\ completed_count = 2
    /\ Len(providers_succeeded) = 1
    /\ Len(providers_failed) = 1
    /\ EventOf(last_progress) = "provider_failed"
    /\ last_progress.current = 2


\* ---------------------------------------------------------------- answer mode
\* The provider events of the progress sink.
ProviderEventIndices ==
    {i \in 1..Len(progress_log) : IsProviderEvent(progress_log[i])}

\* C32: the answer tool has no deadline: no timer is armed and nothing is
\* aborted; it returns only when every enabled provider has settled; its
\* last progress event is 'all_done' with current = total, after one
\* provider event per task; and in its summary providers_queried is the
\* disjoint union of providers_succeeded and providers_failed, with
\* providers_succeeded the sources of the answers in the order of answers.
C32_AnswerWaitsForAllProviders ==
    tool = "answer" =>
        /\ ~timer_armed
        /\ ~aborted
        /\ AnswerSummary =>
              /\ \A n \in Range(tasks) : Settled(n)
              /\ progress_log[Len(progress_log)] =
                     ProgressCall(Len(tasks), Len(tasks), [event |-> "all_done"])
              /\ TerminalIndices = {Len(progress_log)}
              /\ Cardinality(ProviderEventIndices) = Len(tasks)
              /\ response.providers_queried = tasks
              /\ Range(response.providers_succeeded)
                     \cup Range(FailedNamesOf(response)) = Range(tasks)
              /\ NoDuplicates(response.providers_succeeded
                                  \o FailedNamesOf(response))
              /\ response.providers_succeeded =
                     [i \in 1..Len(response.answers) |->
                         response.answers[i].source]
              /\ "providers_timed_out" \notin DOMAIN response

C32_Witness ==
    /\ AnswerSummary
    /\ tasks = <<"perplexity", "kagi_fastgpt">>
    /\ op["perplexity"].st = "resolved"
    /\ op["perplexity"].calls = 2
    /\ op["kagi_fastgpt"].st = "resolved"
    /\ response.providers_succeeded = <<"kagi_fastgpt", "perplexity">>
    /\ response.answers[1].source = "kagi_fastgpt"
    /\ response.providers_failed = <<>>


\* ---------------------------------------------------------------- queried
NonBlank(key) == key \notin {"undefined", "", " "}

\* The providers of a table whose API key is non-blank, in table order.
EnabledInTableOrder(table) ==
    LET rows == SelectSeq([r \in 1..Len(table) |-> r],
                          LAMBDA r : NonBlank(api_key[r]))
    IN  [j \in 1..Len(rows) |-> table[rows[j]]]

\* The names of listed, in the order in which they completed.
InCompletionOrder(listed) ==
    SelectSeq(completed_names, LAMBDA n : Includes(listed, n))

\* C33: the tasks, and providers_queried of the summary, are the providers
\* with a non-blank API key, each once, in table order whatever the order of
\* completion; when the start event is sent a call has been started for each
\* of them; providers_succeeded and providers_failed are in completion order.
C33_QueriedInTableOrder ==
    tool # "none" =>
        /\ tasks = EnabledInTableOrder(SubProviders(tool))
        /\ NoDuplicates(tasks)
        /\ progress_log # <<>> =>
              /\ progress_log[1].message = [event |-> "start", names |-> tasks]
              /\ DOMAIN op = Range(tasks)
              /\ \A n \in Range(tasks) : op[n].calls >= 1
        /\ Finalized =>
              /\ response.providers_queried = tasks
              /\ response.providers_succeeded =
                     InCompletionOrder(response.providers_succeeded)
              /\ FailedNamesOf(response) =
                     InCompletionOrder(FailedNamesOf(response))

C33_Witness ==
    /\ Finalized
    /\ tool = "web_search"
    /\ api_key = [r \in Rows |-> "key"]
    /\ response.providers_queried = <<"tavily", "brave">>
    /\ completed_names = <<"brave", "tavily">>
    /\ response.providers_succeeded = <<"brave">>
    /\ FailedNamesOf(response) = <<"tavily">>


\* ---------------------------------------------------------------- timers
\* C34: however the wait ends (every provider done, the deadline, or an
\* exception thrown while waiting), the handler has cancelled the deadline
\* timer and the heartbeat interval when it returns: from then on neither
\* can fire, and the step that returns is the step that cancels them.
C34_TimersCancelledOnEveryExit ==
    /\ [](Returned =>
             /\ ~timer_armed
             /\ ~interval_armed
             /\ ~ENABLED TimeoutFires
             /\ ~ENABLED Heartbeat)
    /\ [][(phase = "waiting" /\ phase' = "returned") =>
             ~timer_armed' /\ ~interval_armed']_vars

C34_Witness ==
    /\ Returned
    /\ response = WaitError
    /\ HasDeadline
    /\ tasks = <<"tavily", "brave">>
    /\ completed_names = <<"brave">>
    /\ op["tavily"].st = "running"
    /\ ~aborted
    /\ ~timer_armed
    /\ ~interval_armed


\* ---------------------------------------------------------------- event stream
\* The whole text of the stream: its chunks one after the other.
RECURSIVE TextOf(_)
TextOf(chunks) ==
    IF chunks = <<>> THEN <<>> ELSE Head(chunks) \o TextOf(Tail(chunks))

LineFeeds(text) == {i \in 1..Len(text) : text[i] = "LF"}

\* Position of the k-th line feed of text; 0 before the first line, one past
\* the end after the last.
LineFeedAt(text, k) ==
    IF k = 0 THEN 0
    ELSE IF k > Cardinality(LineFeeds(text)) THEN Len(text) + 1
    ELSE CHOOSE i \in LineFeeds(text) :
             Cardinality({j \in LineFeeds(text) : j < i}) = k - 1

\* The lines of text, the last one with or without its line feed.
WholeLines(text) ==
    [k \in 1..(Cardinality(LineFeeds(text)) + 1) |->
        SubSeq(text, LineFeedAt(text, k - 1) + 1, LineFeedAt(text, k) - 1)]

\* What the lines of the whole text give, each processed once, in order.
ExpectedOf(text) ==
    ProcessLines([content |-> <<>>, model |-> "brave"], WholeLines(text))

\* C35: consume_sse_stream returns the content and model that the lines of
\* the whole stream give, each line processed once and in order, however
\* the stream is cut into chunks: a line cut across chunks is put together
\* again, and a last line without line feed is processed too.
C35_ChunkBoundariesDoNotMatter ==
    consumer = "returned" =>
        /\ accumulated_content = ExpectedOf(TextOf(body)).content
        /\ model = ExpectedOf(TextOf(body)).model

C35_Witness ==
    /\ consumer = "returned"
    /\ body = <<<<"da">>,
                <<"ta: ", "{model:m1,content:a", "}", "LF", " ", "da", "ta: ",
                  "{content:b">>,
                <<"}", "CR">>>>
    /\ accumulated_content = <<"a", "b">>
    /\ model = "m1"

====
